---------------------------- MODULE Spec2Model ----------------------------
(***************************************************************************)
(* A model of the CDM validator: the name-similarity scorer (WordMatch),   *)
(* the linked schema graph (CDMmodel), the diagnostic log (ErrorLog) and   *)
(* the reconciliation engine (Validation.validate and its passes).         *)
(*                                                                         *)
(* A name is a sequence of one-character strings.  A score is a pair       *)
(* <<n, d>> standing for the fraction n/d that the Python float holds      *)
(* (1 - distance/max_len); scores are compared by cross-multiplication.    *)
(* Python's None is the empty tuple <<>>; an object id is a tuple          *)
(* <<kind, index>>.                                                        *)
(***************************************************************************)
EXTENDS Naturals, Integers, Sequences, FiniteSets, TLC

VARIABLES
    src_model,        \* Validation.src_model (never assigned by a run)
    solution_model,   \* Validation.solution_model (never assigned by a run)
    error_log,        \* Validation.error_log.errors
    pc,               \* position of validate(): the pass being run
    exc,              \* the exception validate() raised, "" while none
    pool,             \* the unmatched-solution set of the running top-level pass
    idx,              \* index of the next source object of the top-level pass
    cur_src,          \* validate_entity: the source entity of the matched pair
    cur_sol,          \* validate_entity: the solution entity of the matched pair
    sub_pool,         \* the unmatched set of the nested attribute / identifier pass
    sub_idx,          \* index of the next source attribute / identifier
    err_info,         \* validate_inheritances: the local err_info
    matches,          \* history: every (pass, source id, solution id) removed from a pool
    wm_call,          \* a call of a WordMatch method on its own: the method and its arguments
    wm_return,        \* the value that call returned, None before it ran
    find_call,        \* a call of ErrorLog.find_error on its own: the object_id looked up
    find_return,      \* the value that call returned, None before it ran
    directory,        \* batch_verification_mode: the files os.listdir returned
    file_idx,         \* batch_verification_mode: index of the file being processed
    runs,             \* history: one record per finished call of normal_validation_mode
    pass_order,       \* validate(): the passes in the order its body calls them
    reference_log     \* the log of a finished run in the order of the source, None if none

vars == <<src_model, solution_model, error_log, pc, exc, pool, idx,
          cur_src, cur_sol, sub_pool, sub_idx, err_info, matches,
          wm_call, wm_return, find_call, find_return, directory, file_idx, runs,
          pass_order, reference_log>>

\* the state outside one run of validate()
word_vars == <<wm_call, wm_return>>
find_vars == <<find_call, find_return>>
batch_vars == <<directory, file_idx, runs>>
order_vars == <<pass_order, reference_log>>
caller_vars == <<word_vars, find_vars, batch_vars, order_vars>>

None == <<>>

-----------------------------------------------------------------------------
(* Bounds of the explored inputs.                                          *)

MaxEntities == 2
MaxAttributes == 2
MaxIdentifiers == 2
MaxRelationships == 2
MaxInheritances == 2
MaxAssociations == 2
MaxAssociationLinks == 2

-----------------------------------------------------------------------------
(* Sequence helpers.                                                       *)

\* set.remove: the pool without its k-th object, the order of the rest kept
RemoveAt(s, k) == [j \in 1..(Len(s) - 1) |-> IF j < k THEN s[j] ELSE s[j + 1]]

\* the lists of at most n objects of S
SeqsUpTo(S, n) == UNION {[1..k -> S] : k \in 0..n}

\* the name of n letters c
Rep(c, n) == [k \in 1..n |-> c]

\* the list a nested loop appends to: the rows of ss one after the other
RECURSIVE Concat(_)
Concat(ss) == IF ss = <<>> THEN <<>> ELSE Head(ss) \o Concat(Tail(ss))

\* the index part of an object id
Digit == <<"1", "2", "3", "4", "5", "6">>

-----------------------------------------------------------------------------
(* The names the explored graphs use.  Two seven-letter names one edit     *)
(* apart score 6/7 > 0.85; the two twenty-letter names are three edits     *)
(* apart and score exactly 0.85.                                           *)

nmA == Rep("A", 7)
nmA1 == Rep("A", 6) \o <<"B">>
nmA2 == Rep("A", 6) \o <<"C">>
nmB == Rep("B", 7)
nmb == Rep("b", 7)
nmC == Rep("C", 7)
nmT0 == Rep("D", 20)
nmT3 == Rep("D", 17) \o Rep("C", 3)

ExploredNames == {nmA, nmA1, nmA2, nmB, nmb, nmC, nmT0, nmT3}

-----------------------------------------------------------------------------
(* WordMatch.py                                                            *)

\* str.upper() on the letters the explored names use
Upper(w) ==
    [k \in 1..Len(w) |->
        CASE w[k] = "a" -> "A"
          [] w[k] = "b" -> "B"
          [] w[k] = "c" -> "C"
          [] w[k] = "d" -> "D"
          [] OTHER -> w[k]]

Min3(a, b, c) == IF a <= b /\ a <= c THEN a ELSE IF b <= c THEN b ELSE c

\* the entry of a distance that has no substitution: a differing letter costs
\* a deletion and an insertion
LevCellInsertDeleteOnly(c1, s2, previous_row, j, current_row) ==
    Min3(previous_row[j + 1] + 1, current_row[j] + 1,
         previous_row[j] + (IF c1 # s2[j] THEN 2 ELSE 0))

\* lines 21-24: the entry the inner loop appends for s2[j]
LevCell(c1, s2, previous_row, j, current_row) ==
    Min3(previous_row[j + 1] + 1, current_row[j] + 1,
         previous_row[j] + (IF c1 # s2[j] THEN 1 ELSE 0))

\* one pass of the inner loop over s2: appends to current_row, which holds j
\* entries when s2[j] is read
RECURSIVE LevRow(_, _, _, _, _)
LevRow(c1, s2, previous_row, j, current_row) ==
    IF j > Len(s2) THEN current_row
    ELSE LevRow(c1, s2, previous_row, j + 1,
                Append(current_row, LevCell(c1, s2, previous_row, j, current_row)))

\* the outer loop over s1: i is 1-based, so current_row starts as [i]
RECURSIVE LevRows(_, _, _, _)
LevRows(s1, s2, i, previous_row) ==
    IF i > Len(s1) THEN previous_row
    ELSE LET current_row == LevRow(s1[i], s2, previous_row, 1, <<i>>)
         IN IF Len(current_row) = Len(s2) + 1
            THEN LevRows(s1, s2, i + 1, current_row)
            ELSE current_row

RECURSIVE levenshtein_distance(_, _)
levenshtein_distance(s1, s2) ==
    IF Len(s1) < Len(s2) THEN levenshtein_distance(s2, s1)
    ELSE IF Len(s2) = 0 THEN Len(s1)
    ELSE LevRows(s1, s2, 1, [j \in 1..(Len(s2) + 1) |-> j - 1])[Len(s2) + 1]

\* similarity_score dividing by len(s1) instead of the longer length
similarity_score_by_first_length(s1, s2) ==
    IF Len(s1) = 0 THEN <<1, 1>>
    ELSE <<Len(s1) - levenshtein_distance(s1, s2), Len(s1)>>

\* 1.0 is <<1, 1>>; 1 - lev/max_len is <<max_len - lev, max_len>>
similarity_score(s1, s2) ==
    LET lev_distance == levenshtein_distance(s1, s2)
        max_len == IF Len(s1) >= Len(s2) THEN Len(s1) ELSE Len(s2)
    IN IF max_len = 0 THEN <<1, 1>> ELSE <<max_len - lev_distance, max_len>>

ScoreGT(a, b) == a[1] * b[2] > b[1] * a[2]
ScoreLT(a, b) == a[1] * b[2] < b[1] * a[2]
ScoreGE(a, b) == ~ScoreLT(a, b)

\* the row an unstable choice would give: among rows of equal score the last
RECURSIVE BestRowLastOfEqual(_, _, _)
BestRowLastOfEqual(results_table, k, best) ==
    IF k > Len(results_table) THEN best
    ELSE BestRowLastOfEqual(results_table, k + 1,
                 IF ScoreGE(results_table[k][2], best[2]) THEN results_table[k] ELSE best)

\* sorted(results_table, key=score, reverse=True)[0]: the sort is stable, so the
\* first row is the earliest row that no row beats
RECURSIVE BestRow(_, _, _)
BestRow(results_table, k, best) ==
    IF k > Len(results_table) THEN best
    ELSE BestRow(results_table, k + 1,
                 IF ScoreGT(results_table[k][2], best[2]) THEN results_table[k] ELSE best)

\* the score of the two words as they are spelled
CaseSensitiveScore(src_w, sol_word) == similarity_score(src_w, sol_word)

\* self.similarity_score(src_w.upper(), sol_word.upper()), line 40
UpperScore(src_w, sol_word) == similarity_score(Upper(src_w), Upper(sol_word))

\* the scores of the explored names, computed once: <<source, solution, score>>
ScoreMemo == {<<a, b, UpperScore(a, b)>> : a \in ExploredNames, b \in ExploredNames}

WordScore(src_w, sol_word) ==
    IF src_w \in ExploredNames /\ sol_word \in ExploredNames
    THEN (CHOOSE t \in ScoreMemo : t[1] = src_w /\ t[2] = sol_word)[3]
    ELSE UpperScore(src_w, sol_word)

\* a comparison that stops at the first candidate
first_candidate(src_w, sol_words) ==
    IF Len(sol_words) = 0 THEN <<src_w, <<0, 1>>>>
    ELSE <<sol_words[1], WordScore(src_w, sol_words[1])>>

\* a comparison that returns the best word in upper case, as it was scored
compare_word_returning_upper(src_w, sol_words) ==
    LET results_table ==
            [k \in 1..Len(sol_words) |->
                <<Upper(sol_words[k]), WordScore(src_w, sol_words[k])>>]
    IN IF Len(results_table) = 0 THEN <<src_w, <<0, 1>>>>
       ELSE BestRow(results_table, 2, results_table[1])

\* returns <<word, score>>
compare_word(src_w, sol_words) ==
    LET results_table ==
            [k \in 1..Len(sol_words) |->
                <<sol_words[k], WordScore(src_w, sol_words[k])>>]
    IN IF Len(results_table) = 0 THEN <<src_w, <<0, 1>>>>
       ELSE BestRow(results_table, 2, results_table[1])

-----------------------------------------------------------------------------
(* ErrorLog.py                                                             *)

Error(TypeOfObject, id, name, TypeOfError, message) ==
    [type |-> TypeOfObject, id |-> id, name |-> name,
     error |-> TypeOfError, message |-> message]

\* a log that puts the newest record first
add_error_at_front(errors, TypeOfObject, object_id, name, TypeOfError, message) ==
    <<Error(TypeOfObject, object_id, name, TypeOfError, message)>> \o errors

\* self.errors.append(Error(...)), line 59
add_error(errors, TypeOfObject, object_id, name, TypeOfError, message) ==
    Append(errors, Error(TypeOfObject, object_id, name, TypeOfError, message))

\* a lookup that returns the newest record of the subject
RECURSIVE find_latest_error(_, _)
find_latest_error(errors, object_id) ==
    IF errors = <<>> THEN <<None, FALSE>>
    ELSE IF errors[Len(errors)].id = object_id THEN <<errors[Len(errors)], TRUE>>
    ELSE find_latest_error(SubSeq(errors, 1, Len(errors) - 1), object_id)

\* the loop of find_error, lines 44-46, from the k-th record on
RECURSIVE FindFrom(_, _, _)
FindFrom(errors, object_id, k) ==
    IF k > Len(errors) THEN <<None, FALSE>>
    ELSE IF errors[k].id = object_id THEN <<errors[k], TRUE>>
    ELSE FindFrom(errors, object_id, k + 1)

\* returns <<error, found>>
find_error(errors, object_id) == FindFrom(errors, object_id, 1)

-----------------------------------------------------------------------------
(* CDMmodel.py: the linked schema graph.  A reference to an entity or an   *)
(* association holds the id and the name of the object it resolves to, the *)
(* only fields the engine reads through a reference.                       *)

Attribute(id, name, mandatory, datatype) ==
    [id |-> id, name |-> name, mandatory |-> mandatory, datatype |-> datatype]

Identifier(identifierID, identifier_name, identifier_attributes, primary_identifier) ==
    [id |-> identifierID, name |-> identifier_name,
     identifier_attributes |-> identifier_attributes, is_primary |-> primary_identifier]

Entity(id, name, attributes, identifiers) ==
    [id |-> id, name |-> name, is_child |-> FALSE,
     attributes |-> attributes, identifiers |-> identifiers]

Ref(obj) == [id |-> obj.id, name |-> obj.name]

Relationship(id, name, dependent_e1, dependent_e2, entity1, entity2, cardinality_1to2, cardinality_2to1) ==
    [id |-> id, name |-> name,
     is_dependent_e1 |-> dependent_e1, is_dependent_e2 |-> dependent_e2,
     entity1 |-> entity1, entity2 |-> entity2,
     cardinality_1to2 |-> cardinality_1to2, cardinality_2to1 |-> cardinality_2to1]

Association(id, name, attributes) ==
    [id |-> id, name |-> name, attributes |-> attributes]

AssociationLink(id, association, entity, cardinality) ==
    [id |-> id, association |-> association, entity |-> entity,
     cardinality |-> cardinality]

Inheritance(id, name, mutually_exclusive, complete, parent, children) ==
    [id |-> id, name |-> name, mutually_exclusive |-> mutually_exclusive,
     complete |-> complete, parent |-> parent, children |-> children]

\* CDMParser.link_inheritances sets is_child on every child of an inheritance
link_inheritances(entities, inheritances) ==
    [k \in 1..Len(entities) |->
        IF \E h \in 1..Len(inheritances) :
              \E c \in 1..Len(inheritances[h].children) :
                  inheritances[h].children[c].id = entities[k].id
        THEN [entities[k] EXCEPT !.is_child = TRUE]
        ELSE entities[k]]

Model(entities, inheritances, relationships, associations, association_links) ==
    [entities |-> link_inheritances(entities, inheritances),
     relationships |-> relationships,
     inheritances |-> inheritances,
     associations |-> associations,
     association_links |-> association_links]

\* [x for x in objects if x.id == id][0]
ById(objects, id) ==
    objects[CHOOSE k \in 1..Len(objects) :
                /\ objects[k].id = id
                /\ \A j \in 1..(k - 1) : objects[j].id # id]

get_table_name_by_id(model, table_id) ==
    IF \E k \in 1..Len(model.entities) : model.entities[k].id = table_id
    THEN ById(model.entities, table_id).name
    ELSE None

get_attributes(model, table_id) == ById(model.entities, table_id).attributes

get_identifiers(model, table_id) == ById(model.entities, table_id).identifiers

-----------------------------------------------------------------------------
(* Explored inputs: families of (source, solution) pairs of linked graphs. *)
(* Each family varies the objects of one pass and keeps the rest fixed.    *)

\* entities without attributes and identifiers, named names[1], names[2], ...
NamedEntities(names) ==
    [k \in 1..Len(names) |-> Entity(<<"E", Digit[k]>>, names[k], <<>>, <<>>)]

GraphOfEntities(entities) == Model(entities, <<>>, <<>>, <<>>, <<>>)

\* the entity pass: the entities differ in name only
EntityFamily ==
    {<<GraphOfEntities(NamedEntities(s)), GraphOfEntities(NamedEntities(t))>> :
        s \in SeqsUpTo({nmA1, nmB, nmT3}, MaxEntities),
        t \in SeqsUpTo({nmA, nmB, nmb, nmT0}, MaxEntities)}

\* attributes from <<name, datatype, mandatory>> shapes
AttributesOf(shapes) ==
    [k \in 1..Len(shapes) |->
        Attribute(<<"A", Digit[k]>>, shapes[k][1], shapes[k][3], shapes[k][2])]

SrcAttributeShapes == {<<nmA1, "I", TRUE>>, <<nmB, "I", TRUE>>}

SolAttributeShapes ==
    {<<nmA, "I", TRUE>>, <<nmA, "I", FALSE>>, <<nmA, "VA", TRUE>>,
     <<nmA, "VA", FALSE>>, <<nmB, "I", TRUE>>}

\* the attribute pass: one entity on each side, the attributes vary
AttributeFamily ==
    {<<GraphOfEntities(<<Entity(<<"E", "1">>, nmC, AttributesOf(s), <<>>)>>),
       GraphOfEntities(<<Entity(<<"E", "1">>, nmC, AttributesOf(t), <<>>)>>)>> :
        s \in SeqsUpTo(SrcAttributeShapes, MaxAttributes),
        t \in SeqsUpTo(SolAttributeShapes, MaxAttributes)}

\* identifiers from lists of attribute names; the first identifier is the primary one
IdentifiersOf(lists) ==
    [k \in 1..Len(lists) |->
        Identifier(<<"I", Digit[k]>>, <<"I", "D", Digit[k]>>,
                   [a \in 1..Len(lists[k]) |->
                       Attribute(<<"A", lists[k][a]>>, lists[k][a], TRUE, "I")],
                   k = 1)]

SrcIdentifierLists == {<<nmA1>>, <<nmB, nmA1>>, <<nmT3>>}

SolIdentifierLists == {<<nmA>>, <<nmA, nmB>>, <<nmT0>>}

\* the identifier pass: one entity on each side, the identifiers vary
IdentifierFamily ==
    {<<GraphOfEntities(<<Entity(<<"E", "1">>, nmC,
                                AttributesOf(<<<<nmA1, "I", TRUE>>, <<nmB, "I", TRUE>>,
                                               <<nmT3, "I", TRUE>>>>),
                                IdentifiersOf(s))>>),
       GraphOfEntities(<<Entity(<<"E", "1">>, nmC,
                                AttributesOf(<<<<nmA, "I", TRUE>>, <<nmB, "I", TRUE>>,
                                               <<nmT0, "I", TRUE>>>>),
                                IdentifiersOf(t))>>)>> :
        s \in SeqsUpTo(SrcIdentifierLists, MaxIdentifiers),
        t \in SeqsUpTo(SolIdentifierLists, MaxIdentifiers)}

\* identifiers over one attribute, named name, with the primary flags given
FlaggedIdentifiers(name, flags) ==
    [k \in 1..Len(flags) |->
        Identifier(<<"I", Digit[k]>>, <<"I", "D", Digit[k]>>,
                   <<Attribute(<<"A", name>>, name, TRUE, "I")>>, flags[k])]

\* the primary flags of the identifiers: the identifiers differ in the flag only
PrimaryFamily ==
    {<<GraphOfEntities(<<Entity(<<"E", "1">>, nmC, AttributesOf(<<<<nmA1, "I", TRUE>>>>),
                                FlaggedIdentifiers(nmA1, s))>>),
       GraphOfEntities(<<Entity(<<"E", "1">>, nmC, AttributesOf(<<<<nmA, "I", TRUE>>>>),
                                FlaggedIdentifiers(nmA, t))>>)>> :
        s \in SeqsUpTo(BOOLEAN, MaxIdentifiers),
        t \in SeqsUpTo(BOOLEAN, MaxIdentifiers)}

\* an entity named nmC with one attribute, named name, and the identifiers over
\* it with the primary flags given, followed by the entities named names
KeyedEntities(name, flags, names) ==
    <<Entity(<<"E", "1">>, nmC, AttributesOf(<<<<name, "I", TRUE>>>>),
             FlaggedIdentifiers(name, flags))>>
        \o [k \in 1..Len(names) |-> Entity(<<"E", Digit[k + 1]>>, names[k], <<>>, <<>>)]

\* the entity pass around an entity with identifiers: entities follow it in both graphs
KeyedEntityFamily ==
    {<<GraphOfEntities(KeyedEntities(nmA1, s[1], s[2])),
       GraphOfEntities(KeyedEntities(nmA, t[1], t[2]))>> :
        s \in SeqsUpTo(BOOLEAN, 1) \X SeqsUpTo({nmA1}, MaxEntities - 1),
        t \in SeqsUpTo(BOOLEAN, 1) \X SeqsUpTo({nmA, nmB}, MaxEntities - 1)}

\* entity number n with one attribute and one identifier over it
KeyedEntity(n, entity_name, attribute_name, primary_identifier) ==
    Entity(<<"E", Digit[n]>>, entity_name,
           <<Attribute(<<"A", Digit[n]>>, attribute_name, TRUE, "I")>>,
           <<Identifier(<<"I", Digit[n]>>, <<"I", "D", Digit[n]>>,
                        <<Attribute(<<"A", Digit[n]>>, attribute_name, TRUE, "I")>>,
                        primary_identifier)>>)

\* the attribute and the identifier pass of two entity pairs in a row: the
\* first pair differs in its attribute, the second pair varies
NestedPassFamily ==
    {<<GraphOfEntities(<<KeyedEntity(1, nmC, nmB, TRUE), KeyedEntity(2, nmB, s[1], s[2])>>),
       GraphOfEntities(<<KeyedEntity(1, nmC, nmA, TRUE), KeyedEntity(2, nmB, nmA, t)>>)>> :
        s \in {nmA1, nmB} \X BOOLEAN, t \in BOOLEAN}

\* the two entities the relationships and the association links join
EndA == Entity(<<"E", "1">>, nmB, <<>>, <<>>)
EndB == Entity(<<"E", "2">>, nmC, <<>>, <<>>)

\* relationships from <<name, entity1, entity2, 1to2, 2to1, dependent_e1>> shapes
RelationshipsOf(shapes) ==
    [k \in 1..Len(shapes) |->
        Relationship(<<"R", Digit[k]>>, shapes[k][1], shapes[k][6], FALSE,
                     Ref(shapes[k][2]), Ref(shapes[k][3]), shapes[k][4], shapes[k][5])]

SrcRelationshipShapes ==
    {<<nmA1, EndA, EndB, "0,n", "1,1", FALSE>>,
     <<nmA1, EndB, EndA, "0,n", "1,1", FALSE>>,
     <<nmT3, EndA, EndB, "0,n", "1,1", FALSE>>}

SolRelationshipShapes ==
    {<<nmA, EndA, EndB, "0,n", "1,1", FALSE>>,
     <<nmA, EndA, EndB, "1,n", "1,1", FALSE>>,
     <<nmA, EndA, EndB, "0,n", "0,1", TRUE>>,
     <<nmA, EndA, EndB, "1,n", "0,1", FALSE>>,
     <<nmT0, EndA, EndB, "0,n", "1,1", FALSE>>}

\* the relationship pass
RelationshipFamily ==
    {<<Model(<<EndA, EndB>>, <<>>, RelationshipsOf(s), <<>>, <<>>),
       Model(<<EndA, EndB>>, <<>>, RelationshipsOf(t), <<>>, <<>>)>> :
        s \in SeqsUpTo(SrcRelationshipShapes, MaxRelationships),
        t \in SeqsUpTo(SolRelationshipShapes, MaxRelationships)}

\* the entities the inheritances range over
SrcKin == NamedEntities(<<nmB, nmA1, nmA2, nmT3>>)
SolKin == NamedEntities(<<nmB, nmA, nmT0>>)

\* inheritances from <<parent, children, mutually_exclusive, complete>> shapes
\* over the entities kin
InheritancesOf(kin, shapes) ==
    [k \in 1..Len(shapes) |->
        Inheritance(<<"H", Digit[k]>>, <<"H", Digit[k]>>, shapes[k][3], shapes[k][4],
                    Ref(kin[shapes[k][1]]),
                    [c \in 1..Len(shapes[k][2]) |-> Ref(kin[shapes[k][2][c]])])]

SrcInheritanceShapes ==
    {<<1, <<2, 3>>, TRUE, TRUE>>, <<1, <<4>>, TRUE, TRUE>>, <<4, <<2>>, TRUE, TRUE>>}

SolInheritanceShapes ==
    {<<1, <<2>>, TRUE, TRUE>>, <<1, <<2>>, FALSE, FALSE>>, <<1, <<3>>, TRUE, FALSE>>,
     <<3, <<2>>, TRUE, TRUE>>, <<1, <<3>>, TRUE, TRUE>>}

\* the inheritance pass
InheritanceFamily ==
    {<<Model(SrcKin, InheritancesOf(SrcKin, s), <<>>, <<>>, <<>>),
       Model(SolKin, InheritancesOf(SolKin, t), <<>>, <<>>, <<>>)>> :
        s \in SeqsUpTo(SrcInheritanceShapes, MaxInheritances),
        t \in SeqsUpTo(SolInheritanceShapes, MaxInheritances)}

\* associations from <<name, attribute names>> shapes
AssociationsOf(shapes) ==
    [k \in 1..Len(shapes) |->
        Association(<<"S", Digit[k]>>, shapes[k][1],
                    [a \in 1..Len(shapes[k][2]) |->
                        Attribute(<<"A", Digit[a]>>, shapes[k][2][a], TRUE, "I")])]

SrcAssociationShapes ==
    {<<nmA1, <<>>>>, <<nmA1, <<nmB>>>>, <<nmA1, <<nmB, nmA1>>>>, <<nmT3, <<>>>>}

SolAssociationShapes ==
    {<<nmA, <<>>>>, <<nmA, <<nmB>>>>, <<nmA, <<nmC>>>>, <<nmT0, <<>>>>}

\* the association pass
AssociationFamily ==
    {<<Model(<<>>, <<>>, <<>>, AssociationsOf(s), <<>>),
       Model(<<>>, <<>>, <<>>, AssociationsOf(t), <<>>)>> :
        s \in SeqsUpTo(SrcAssociationShapes, MaxAssociations),
        t \in SeqsUpTo(SolAssociationShapes, MaxAssociations)}

\* the associations the links belong to
SrcHub == AssociationsOf(<<<<nmA1, <<>>>>, <<nmT3, <<>>>>>>)
SolHub == AssociationsOf(<<<<nmA, <<>>>>, <<nmT0, <<>>>>>>)

\* association links from <<association index, entity, cardinality>> shapes
AssociationLinksOf(hub, shapes) ==
    [k \in 1..Len(shapes) |->
        AssociationLink(<<"L", Digit[k]>>, Ref(hub[shapes[k][1]]), Ref(shapes[k][2]),
                        shapes[k][3])]

SrcLinkShapes == {<<1, EndA, "0,n">>, <<1, EndB, "0,n">>, <<2, EndA, "0,n">>}

SolLinkShapes == {<<1, EndA, "0,n">>, <<1, EndA, "1,n">>, <<1, EndB, "0,n">>,
                  <<2, EndA, "0,n">>}

\* the association-link pass
AssociationLinkFamily ==
    {<<Model(<<EndA, EndB>>, <<>>, <<>>, SrcHub, AssociationLinksOf(SrcHub, s)),
       Model(<<EndA, EndB>>, <<>>, <<>>, SolHub, AssociationLinksOf(SolHub, t))>> :
        s \in SeqsUpTo(SrcLinkShapes, MaxAssociationLinks),
        t \in SeqsUpTo(SolLinkShapes, MaxAssociationLinks)}

\* the families, one for each pass
PassFamilies ==
    <<EntityFamily, AttributeFamily, IdentifierFamily, PrimaryFamily, KeyedEntityFamily,
      NestedPassFamily,
      RelationshipFamily, InheritanceFamily, AssociationFamily, AssociationLinkFamily>>

\* the graph with the mandatory flag of attribute a of entity e negated
FlipMandatory(model, e, a) ==
    [model EXCEPT !.entities[e].attributes[a].mandatory = ~@]

\* the families whose graphs are also run against a copy in which exactly one
\* attribute of the entity differs, in mandatory only
FlipFamilies == <<AttributeFamily, IdentifierFamily>>

\* the explored (source, solution) pairs: the pairs of the families; each
\* solution graph against a structurally identical copy of itself with the
\* same names; each solution graph of FlipFamilies against its one-flag flips
Scenario(source, solution) ==
    \/ \E f \in 1..Len(PassFamilies) : \E sc \in PassFamilies[f] :
          \/ source = sc[1] /\ solution = sc[2]
          \/ source = sc[2] /\ solution = sc[2]
    \/ \E f \in 1..Len(FlipFamilies) : \E sc \in FlipFamilies[f] :
          \E a \in 1..Len(sc[2].entities[1].attributes) :
              source = sc[2] /\ solution = FlipMandatory(sc[2], 1, a)

-----------------------------------------------------------------------------
(* Validation.py                                                           *)

name_match_threshold == <<17, 20>>     \* 0.85

\* validate(), lines 34-38: the five passes in the order they are called
validate_order ==
    <<"validate_entities", "validate_relationships", "validate_inheritances",
      "validate_associations", "validate_association_links">>

\* where validate() is once pass has returned: the next call, or its end
AfterPass(pass) ==
    LET k == CHOOSE j \in 1..Len(pass_order) : pass_order[j] = pass
    IN IF k < Len(pass_order) THEN pass_order[k + 1] ELSE "done"

\* set(objects): iteration order of a set of objects is any order, and stays
\* the same while elements are only removed
SetOrders(objects) ==
    {[k \in 1..Len(objects) |-> objects[p[k]]] : p \in Permutations(1..Len(objects))}

NamesOf(objects) == [k \in 1..Len(objects) |-> objects[k].name]

\* next((x for x in objects if x.name == name), None): an index, 0 for None
FirstNamed(objects, name) ==
    IF \E k \in 1..Len(objects) : objects[k].name = name
    THEN CHOOSE k \in 1..Len(objects) :
            /\ objects[k].name = name
            /\ \A j \in 1..(k - 1) : objects[j].name # name
    ELSE 0

Init ==
    /\ Scenario(src_model, solution_model)
    /\ error_log = <<>>
    /\ pc = "validate_entities"
    /\ exc = ""
    /\ pool = <<>>
    /\ idx = 0
    /\ cur_src = None
    /\ cur_sol = None
    /\ sub_pool = <<>>
    /\ sub_idx = 0
    /\ err_info = [state |-> "unbound", info |-> <<>>]
    /\ matches = <<>>
    /\ wm_call = None
    /\ wm_return = None
    /\ find_call = None
    /\ find_return = None
    /\ pass_order = validate_order
    /\ reference_log = None
    /\ directory = <<>>
    /\ file_idx = 0
    /\ runs = <<>>

\* an entity pass that reports the whole solution pool before its loop starts
ValidateEntitiesBeginReportingThePool ==
    /\ pc = "validate_entities"
    /\ pool' \in SetOrders(solution_model.entities)
    /\ idx' = 1
    /\ error_log' = error_log \o
          [k \in 1..Len(pool') |->
              Error("Entity", None, None, "Error",
                    <<"Unmatched entity in solution model", pool'[k].name>>)]
    /\ pc' = "entities_loop"
    /\ UNCHANGED <<caller_vars, src_model, solution_model, exc, cur_src, cur_sol,
                   sub_pool, sub_idx, err_info, matches>>

\* validate_entities, lines 44-48
ValidateEntitiesBegin ==
    /\ pc = "validate_entities"
    /\ pool' \in SetOrders(solution_model.entities)
    /\ idx' = 1
    /\ pc' = "entities_loop"
    /\ UNCHANGED <<caller_vars, src_model, solution_model, error_log, exc, cur_src, cur_sol,
                   sub_pool, sub_idx, err_info, matches>>

\* validate_entity, lines 92-99: the is_child comparison of a matched pair
EntityChildCheck(errors, src_entity, solution_entity) ==
    IF src_entity.is_child # solution_entity.is_child
    THEN add_error(errors, "Entity", src_entity.id, <<src_entity.name>>, "Error",
                   <<"Entity child property mismatch">>)
    ELSE errors

\* one iteration of the loop of validate_entities, lines 50-75; a match enters
\* validate_entity and validate_attributes (its pool is seeded at line 112)
ValidateEntitiesStep ==
    /\ pc = "entities_loop"
    /\ idx <= Len(src_model.entities)
    /\ LET src_entity == src_model.entities[idx]
           r == compare_word(src_entity.name, NamesOf(pool))
           solution_entity_match == r[1]
           score == r[2]
           m == FirstNamed(pool, solution_entity_match)
       IN IF ScoreGT(score, name_match_threshold)
          THEN IF m # 0
               THEN /\ pool' = RemoveAt(pool, m)
                    /\ matches' = Append(matches, <<"Entity", src_entity.id, pool[m].id>>)
                    /\ cur_src' = ById(src_model.entities, src_entity.id)
                    /\ cur_sol' = ById(solution_model.entities, pool[m].id)
                    /\ error_log' = EntityChildCheck(error_log, cur_src', cur_sol')
                    /\ sub_pool' \in SetOrders(get_attributes(solution_model, pool[m].id))
                    /\ sub_idx' = 1
                    /\ pc' = "attributes_loop"
                    /\ UNCHANGED idx
               ELSE /\ error_log' = add_error(error_log, "Entity", src_entity.id,
                                        <<src_entity.name>>, "Error",
                                        <<"Matching entity not found in solution model or already matched",
                                          solution_entity_match>>)
                    /\ idx' = idx + 1
                    /\ UNCHANGED <<pool, matches, cur_src, cur_sol, sub_pool, sub_idx, pc>>
          ELSE /\ error_log' = add_error(error_log, "Entity", src_entity.id,
                                   <<src_entity.name>>, "Error",
                                   <<"Entity not found in solution model", src_entity.name>>)
               /\ idx' = idx + 1
               /\ UNCHANGED <<pool, matches, cur_src, cur_sol, sub_pool, sub_idx, pc>>
    /\ UNCHANGED <<caller_vars, src_model, solution_model, exc, err_info>>

\* a comparison that reports the first field that differs and stops
AttributeFirstMismatch(errors, src_table_id, src_attribute, matching_attribute) ==
    IF src_attribute.datatype # matching_attribute.datatype
    THEN add_error(errors, "Attribute", src_table_id, <<src_attribute.name>>, "Error",
                   <<"Attribute datatype mismatch", src_attribute.name>>)
    ELSE IF src_attribute.mandatory # matching_attribute.mandatory
    THEN add_error(errors, "Attribute", src_table_id, <<src_attribute.name>>, "Error",
                   <<"Attribute mandatory property mismatch", src_attribute.name>>)
    ELSE errors

\* validate_attributes, lines 131-137: the two comparisons of a matched pair
AttributeMismatches(errors, src_table_id, src_attribute, matching_attribute) ==
    LET e1 == IF src_attribute.datatype # matching_attribute.datatype
              THEN add_error(errors, "Attribute", src_table_id,
                             <<src_attribute.name>>, "Error",
                             <<"Attribute datatype mismatch", src_attribute.name>>)
              ELSE errors
    IN IF src_attribute.mandatory # matching_attribute.mandatory
       THEN add_error(e1, "Attribute", src_table_id,
                      <<src_attribute.name>>, "Error",
                      <<"Attribute mandatory property mismatch", src_attribute.name>>)
       ELSE e1

\* one iteration of the loop of validate_attributes, lines 115-145
ValidateAttributesStep ==
    /\ pc = "attributes_loop"
    /\ sub_idx <= Len(get_attributes(src_model, cur_src.id))
    /\ LET src_table_id == cur_src.id
           src_attribute == get_attributes(src_model, src_table_id)[sub_idx]
           r == compare_word(src_attribute.name, NamesOf(sub_pool))
           solution_attribute_match_name == r[1]
           score == r[2]
           m == FirstNamed(sub_pool, solution_attribute_match_name)
       IN IF ScoreGT(score, name_match_threshold)
          THEN IF m # 0
               THEN /\ sub_pool' = RemoveAt(sub_pool, m)
                    /\ matches' = Append(matches, <<"Attribute", src_attribute.id, sub_pool[m].id>>)
                    /\ error_log' = AttributeMismatches(error_log, src_table_id,
                                                        src_attribute, sub_pool[m])
               ELSE /\ error_log' = add_error(error_log, "Attribute", src_table_id, None, "Error",
                                        <<"Matching attribute not found in solution model or already matched",
                                          solution_attribute_match_name>>)
                    /\ UNCHANGED <<sub_pool, matches>>
          ELSE /\ error_log' = add_error(error_log, "Attribute", src_table_id,
                                   <<src_attribute.name>>, "Error",
                                   <<"Attribute not found in the solution model", src_attribute.name>>)
               /\ UNCHANGED <<sub_pool, matches>>
    /\ sub_idx' = sub_idx + 1
    /\ UNCHANGED <<caller_vars, src_model, solution_model, pc, exc, pool, idx, cur_src, cur_sol, err_info>>

\* validate_attributes, lines 148-153, then validate_identifiers, lines 198-200
ValidateAttributesEnd ==
    /\ pc = "attributes_loop"
    /\ sub_idx > Len(get_attributes(src_model, cur_src.id))
    /\ error_log' = error_log \o
          [k \in 1..Len(sub_pool) |->
              Error("Entity", cur_src.id, None, "Error",
                    <<"Unmatched attribute in entity",
                      get_table_name_by_id(src_model, cur_src.id), sub_pool[k].name>>)]
    /\ sub_pool' \in SetOrders(get_identifiers(solution_model, cur_sol.id))
    /\ sub_idx' = 1
    /\ pc' = "identifiers_loop"
    /\ UNCHANGED <<caller_vars, src_model, solution_model, exc, pool, idx, cur_src, cur_sol,
                   err_info, matches>>

\* min(scores) of a non-empty list
RECURSIVE MinScore(_, _, _)
MinScore(scores, k, least) ==
    IF k > Len(scores) THEN least
    ELSE MinScore(scores, k + 1, IF ScoreLT(scores[k], least) THEN scores[k] ELSE least)

\* validate_identifier_attributes, lines 167-177: the loop over the source
\* identifier's attributes, from attribute a on.  outcome "raise" is min([])
\* line 170-172: the scores of one source attribute against every pool identifier
IdentifierScores(src_attribute, solution_identifier_attributes) ==
    [k \in 1..Len(solution_identifier_attributes) |->
        compare_word(src_attribute.name, solution_identifier_attributes[k])[2]]

\* line 173: min(scores) < threshold
BelowThreshold(scores) == ScoreLT(MinScore(scores, 2, scores[1]), name_match_threshold)

RECURSIVE IdentifierAttributesLoop(_, _, _)
IdentifierAttributesLoop(src_identifier, solution_identifier_attributes, a) ==
    IF a > Len(src_identifier.identifier_attributes)
    THEN [outcome |-> "pass", at |-> 0]
    ELSE IF Len(solution_identifier_attributes) = 0
         THEN [outcome |-> "raise", at |-> a]
         ELSE IF BelowThreshold(IdentifierScores(src_identifier.identifier_attributes[a],
                                                 solution_identifier_attributes))
              THEN [outcome |-> "mismatch", at |-> a]
              ELSE IdentifierAttributesLoop(src_identifier,
                                            solution_identifier_attributes, a + 1)

\* a variant of line 182 with sequence semantics: the k-th member attribute of
\* the source identifier is scored against the k-th member of the candidate
match_found_by_position(src_identifier, identifier) ==
    /\ Len(src_identifier.identifier_attributes) <= Len(identifier.identifier_attributes)
    /\ \A a \in 1..Len(src_identifier.identifier_attributes) :
          ScoreGE(WordScore(src_identifier.identifier_attributes[a].name,
                            identifier.identifier_attributes[a].name),
                  name_match_threshold)

\* line 182: all(compare_word(a.name, sol_attributes)[1] >= threshold for a in ...)
match_found(src_identifier, identifier) ==
    LET sol_attributes == NamesOf(identifier.identifier_attributes)
    IN \A a \in 1..Len(src_identifier.identifier_attributes) :
          ScoreGE(compare_word(src_identifier.identifier_attributes[a].name,
                               sol_attributes)[2],
                  name_match_threshold)

\* lines 180-188: the index of the first identifier of the pool that matches, 0 for None
FirstMatchingIdentifier(src_identifier, solution_identifiers) ==
    IF \E k \in 1..Len(solution_identifiers) :
          match_found(src_identifier, solution_identifiers[k])
    THEN CHOOSE k \in 1..Len(solution_identifiers) :
            /\ match_found(src_identifier, solution_identifiers[k])
            /\ \A j \in 1..(k - 1) : ~match_found(src_identifier, solution_identifiers[j])
    ELSE 0

\* validate_identifier_attributes: [raised, index (0 for None), flag, errors logged]
validate_identifier_attributes(src_identifier, solution_identifiers) ==
    LET solution_identifier_attributes ==
            [k \in 1..Len(solution_identifiers) |->
                NamesOf(solution_identifiers[k].identifier_attributes)]
        scan == IdentifierAttributesLoop(src_identifier, solution_identifier_attributes, 1)
        found == FirstMatchingIdentifier(src_identifier, solution_identifiers)
    IN CASE scan.outcome = "raise" ->
              [raised |-> TRUE, index |-> 0, flag |-> FALSE, errors |-> <<>>]
         [] scan.outcome = "mismatch" ->
              [raised |-> FALSE, index |-> 0, flag |-> FALSE,
               errors |-> <<Error("Identifier", src_identifier.id,
                                  <<src_identifier.identifier_attributes[scan.at].name>>,
                                  "Error",
                                  <<"Identifier attributes mismatch in solution model">>)>>]
         [] OTHER ->
              [raised |-> FALSE, index |-> found, flag |-> found # 0, errors |-> <<>>]

\* a loop over the source identifiers that goes on after a primary mismatch
ValidateIdentifiersStepWithoutBreak ==
    /\ pc = "identifiers_loop"
    /\ sub_idx <= Len(get_identifiers(src_model, cur_src.id))
    /\ LET src_table_id == cur_src.id
           src_identifier == get_identifiers(src_model, src_table_id)[sub_idx]
           r == validate_identifier_attributes(src_identifier, sub_pool)
           logged == error_log \o r.errors
       IN IF r.raised
          THEN /\ pc' = "raised"
               /\ exc' = "ValueError"
               /\ UNCHANGED <<error_log, sub_pool, sub_idx, matches>>
          ELSE IF r.flag
               THEN /\ sub_pool' = RemoveAt(sub_pool, r.index)
                    /\ matches' = Append(matches, <<"Identifier", src_identifier.id,
                                                    sub_pool[r.index].id>>)
                    /\ sub_idx' = sub_idx + 1
                    /\ exc' = exc
                    /\ IF sub_pool[r.index].is_primary # src_identifier.is_primary
                       THEN /\ error_log' = add_error(logged, "Identifier", src_table_id,
                                                <<src_identifier.id>>, "Error",
                                                <<"Table identifier primary property mismatch",
                                                  get_table_name_by_id(src_model, src_table_id),
                                                  src_identifier.name>>)
                            /\ pc' = pc
                       ELSE /\ error_log' = logged
                            /\ pc' = pc
               ELSE /\ error_log' = logged
                    /\ sub_idx' = sub_idx + 1
                    /\ UNCHANGED <<pc, exc, sub_pool, matches>>
    /\ UNCHANGED <<caller_vars, src_model, solution_model, pool, idx, cur_src, cur_sol, err_info>>

\* one iteration of the loop of validate_identifiers, lines 201-208
ValidateIdentifiersStep ==
    /\ pc = "identifiers_loop"
    /\ sub_idx <= Len(get_identifiers(src_model, cur_src.id))
    /\ LET src_table_id == cur_src.id
           src_identifier == get_identifiers(src_model, src_table_id)[sub_idx]
           r == validate_identifier_attributes(src_identifier, sub_pool)
           logged == error_log \o r.errors
       IN IF r.raised
          THEN /\ pc' = "raised"
               /\ exc' = "ValueError"
               /\ UNCHANGED <<error_log, sub_pool, sub_idx, matches>>
          ELSE IF r.flag
               THEN /\ sub_pool' = RemoveAt(sub_pool, r.index)
                    /\ matches' = Append(matches, <<"Identifier", src_identifier.id,
                                                    sub_pool[r.index].id>>)
                    /\ sub_idx' = sub_idx + 1
                    /\ exc' = exc
                    /\ IF sub_pool[r.index].is_primary # src_identifier.is_primary
                       THEN /\ error_log' = add_error(logged, "Identifier", src_table_id,
                                                <<src_identifier.id>>, "Error",
                                                <<"Table identifier primary property mismatch",
                                                  get_table_name_by_id(src_model, src_table_id),
                                                  src_identifier.name>>)
                            /\ pc' = "identifiers_break"
                       ELSE /\ error_log' = logged
                            /\ pc' = pc
               ELSE /\ error_log' = logged
                    /\ sub_idx' = sub_idx + 1
                    /\ UNCHANGED <<pc, exc, sub_pool, matches>>
    /\ UNCHANGED <<caller_vars, src_model, solution_model, pool, idx, cur_src, cur_sol, err_info>>

\* validate_identifiers, lines 212-214, then back in validate_entities' loop
ValidateIdentifiersEnd ==
    /\ \/ pc = "identifiers_break"
       \/ /\ pc = "identifiers_loop"
          /\ sub_idx > Len(get_identifiers(src_model, cur_src.id))
    /\ error_log' = error_log \o
          [k \in 1..Len(sub_pool) |->
              Error("Identifier", cur_src.id, None, "Error",
                    <<"Unmatched identifier in entity",
                      get_table_name_by_id(src_model, cur_src.id), sub_pool[k].name>>)]
    /\ idx' = idx + 1
    /\ pc' = "entities_loop"
    /\ UNCHANGED <<caller_vars, src_model, solution_model, exc, pool, cur_src, cur_sol,
                   sub_pool, sub_idx, err_info, matches>>

\* validate_entities, lines 78-83
ValidateEntitiesEnd ==
    /\ pc = "entities_loop"
    /\ idx > Len(src_model.entities)
    /\ error_log' = error_log \o
          [k \in 1..Len(pool) |->
              Error("Entity", None, None, "Error",
                    <<"Unmatched entity in solution model", pool[k].name>>)]
    /\ pc' = AfterPass("validate_entities")
    /\ UNCHANGED <<caller_vars, src_model, solution_model, exc, pool, idx, cur_src, cur_sol,
                   sub_pool, sub_idx, err_info, matches>>

\* a variant of lines 224-233 that also accepts a pair whose endpoints
\* correspond swapped (entity1 to entity2 and entity2 to entity1)
validate_relationship_entities_either_way(src_relationship, solution_relationship) ==
    /\ ScoreGT(compare_word(src_relationship.name,
                            <<solution_relationship.name>>)[2], name_match_threshold)
    /\ \/ /\ ScoreGT(compare_word(src_relationship.entity1.name,
                                  <<solution_relationship.entity1.name>>)[2],
                     name_match_threshold)
          /\ ScoreGT(compare_word(src_relationship.entity2.name,
                                  <<solution_relationship.entity2.name>>)[2],
                     name_match_threshold)
       \/ /\ ScoreGT(compare_word(src_relationship.entity1.name,
                                  <<solution_relationship.entity2.name>>)[2],
                     name_match_threshold)
          /\ ScoreGT(compare_word(src_relationship.entity2.name,
                                  <<solution_relationship.entity1.name>>)[2],
                     name_match_threshold)

\* validate_relationship_entities, lines 224-233: True, or None (FALSE here)
validate_relationship_entities(src_relationship, solution_relationship) ==
    LET score == compare_word(src_relationship.entity1.name,
                              <<solution_relationship.entity1.name>>)[2]
        score2 == compare_word(src_relationship.entity2.name,
                               <<solution_relationship.entity2.name>>)[2]
        name_score == compare_word(src_relationship.name,
                                   <<solution_relationship.name>>)[2]
    IN /\ ScoreGT(score, name_match_threshold)
       /\ ScoreGT(score2, name_match_threshold)
       /\ ScoreGT(name_score, name_match_threshold)

\* a pass that builds its pool by taking the relationships out of the solution
\* graph's own list
ValidateRelationshipsBeginTakingTheList ==
    /\ pc = "validate_relationships"
    /\ pool' \in SetOrders(solution_model.relationships)
    /\ solution_model' = [solution_model EXCEPT !.relationships = <<>>]
    /\ idx' = 1
    /\ pc' = "relationships_loop"
    /\ UNCHANGED <<caller_vars, src_model, error_log, exc, cur_src, cur_sol,
                   sub_pool, sub_idx, err_info, matches>>

\* validate_relationships, line 239
ValidateRelationshipsBegin ==
    /\ pc = "validate_relationships"
    /\ pool' \in SetOrders(solution_model.relationships)
    /\ idx' = 1
    /\ pc' = "relationships_loop"
    /\ UNCHANGED <<caller_vars, src_model, solution_model, error_log, exc, cur_src, cur_sol,
                   sub_pool, sub_idx, err_info, matches>>

\* the inner loop of line 242: the first relationship of the pool, in iteration
\* order, that validate_relationship_entities accepts; 0 when the loop ends unbroken
FirstRelationship(src_relationship, unmatched_sol_relationships) ==
    IF \E k \in 1..Len(unmatched_sol_relationships) :
          validate_relationship_entities(src_relationship, unmatched_sol_relationships[k])
    THEN CHOOSE k \in 1..Len(unmatched_sol_relationships) :
            /\ validate_relationship_entities(src_relationship,
                                              unmatched_sol_relationships[k])
            /\ \A j \in 1..(k - 1) :
                  ~validate_relationship_entities(src_relationship,
                                                  unmatched_sol_relationships[j])
    ELSE 0

\* a variant of lines 246-252 that logs one cardinality diagnostic per direction
RelationshipMismatchesPerDirection(errors, src_relationship, sol_relationship) ==
    (IF src_relationship.cardinality_1to2 # sol_relationship.cardinality_1to2
     THEN add_error(errors, "Relationship", src_relationship.id,
                    <<src_relationship.name>>, "Error",
                    <<"Relationship cardinality mismatch", src_relationship.name>>)
     ELSE errors)
    \o (IF src_relationship.cardinality_2to1 # sol_relationship.cardinality_2to1
        THEN <<Error("Relationship", src_relationship.id, <<src_relationship.name>>,
                     "Error",
                     <<"Relationship cardinality mismatch", src_relationship.name>>)>>
        ELSE <<>>)

\* lines 246-252: the diagnostics of a matched relationship pair
RelationshipMismatches(errors, src_relationship, sol_relationship) ==
    LET e1 == IF \/ src_relationship.cardinality_1to2 # sol_relationship.cardinality_1to2
                 \/ src_relationship.cardinality_2to1 # sol_relationship.cardinality_2to1
              THEN add_error(errors, "Relationship", src_relationship.id,
                             <<src_relationship.name>>, "Error",
                             <<"Relationship cardinality mismatch", src_relationship.name>>)
              ELSE errors
    IN IF \/ src_relationship.is_dependent_e1 # sol_relationship.is_dependent_e1
          \/ src_relationship.is_dependent_e2 # sol_relationship.is_dependent_e2
       THEN add_error(e1, "Relationship", src_relationship.id,
                      <<src_relationship.name>>, "Error",
                      <<"Relationship dependent property mismatch", src_relationship.name>>)
       ELSE e1

\* one iteration of the outer loop of validate_relationships, lines 241-258
ValidateRelationshipsStep ==
    /\ pc = "relationships_loop"
    /\ idx <= Len(src_model.relationships)
    /\ LET src_relationship == src_model.relationships[idx]
           m == FirstRelationship(src_relationship, pool)
       IN IF m # 0
          THEN /\ pool' = RemoveAt(pool, m)
               /\ matches' = Append(matches, <<"Relationship", src_relationship.id, pool[m].id>>)
               /\ error_log' = RelationshipMismatches(error_log, src_relationship, pool[m])
          ELSE /\ error_log' = add_error(error_log, "Relationship", src_relationship.id,
                                   <<src_relationship.name>>, "Error",
                                   <<"Relationship not found in solution model",
                                     src_relationship.name>>)
               /\ UNCHANGED <<pool, matches>>
    /\ idx' = idx + 1
    /\ UNCHANGED <<caller_vars, src_model, solution_model, pc, exc, cur_src, cur_sol,
                   sub_pool, sub_idx, err_info>>

\* validate_relationships, lines 260-263
ValidateRelationshipsEnd ==
    /\ pc = "relationships_loop"
    /\ idx > Len(src_model.relationships)
    /\ error_log' = error_log \o
          [k \in 1..Len(pool) |->
              Error("Relationship", None, None, "Error",
                    <<"Unmatched relationship in solution model", pool[k].name>>)]
    /\ pc' = AfterPass("validate_relationships")
    /\ UNCHANGED <<caller_vars, src_model, solution_model, exc, pool, idx, cur_src, cur_sol,
                   sub_pool, sub_idx, err_info, matches>>

\* lines 283-284: best_child_score after one more solution child
BetterScore(curr_score, best_child_score) ==
    IF ScoreGT(curr_score, best_child_score) THEN curr_score ELSE best_child_score

\* lines 280-284: the best score of a child over the solution children, from 0
RECURSIVE BestChildScore(_, _, _, _)
BestChildScore(child, solution_children, k, best_child_score) ==
    IF k > Len(solution_children) THEN best_child_score
    ELSE BestChildScore(child, solution_children, k + 1,
                        BetterScore(compare_word(child.name,
                                                 <<solution_children[k].name>>)[2],
                                    best_child_score))

\* validate_inheritance: [err_info (<<>> for None), flag, errors logged by the call]
validate_inheritance(src_inheritance, solution_inheritance) ==
    LET parent_score == compare_word(src_inheritance.parent.name,
                                     <<solution_inheritance.parent.name>>)[2]
        children_scores ==
            [c \in 1..Len(src_inheritance.children) |->
                BestChildScore(src_inheritance.children[c],
                               solution_inheritance.children, 1, <<0, 1>>)]
    IN IF \E c \in 1..Len(children_scores) :
             ScoreLT(children_scores[c], name_match_threshold)
       THEN [err_info |-> <<Error("Inheritance", src_inheritance.id,
                                  <<src_inheritance.name>>, "Error",
                                  <<"Inheritance children mismatch", src_inheritance.name>>)>>,
             flag |-> FALSE, errors |-> <<>>]
       ELSE IF ScoreLT(parent_score, name_match_threshold)
       THEN [err_info |-> <<Error("Inheritance", src_inheritance.id,
                                  <<src_inheritance.name>>, "Error",
                                  <<"Inheritance parent mismatch", src_inheritance.name>>)>>,
             flag |-> FALSE, errors |-> <<>>]
       ELSE IF src_inheritance.mutually_exclusive # solution_inheritance.mutually_exclusive
       THEN [err_info |-> <<>>, flag |-> TRUE,
             errors |-> <<Error("Inheritance", src_inheritance.id,
                                <<src_inheritance.name>>, "Error",
                                <<"Inheritance mutually exclusive property mismatch",
                                  src_inheritance.name>>)>>]
       ELSE IF src_inheritance.complete # solution_inheritance.complete
       THEN [err_info |-> <<>>, flag |-> TRUE,
             errors |-> <<Error("Inheritance", src_inheritance.id,
                                <<src_inheritance.name>>, "Error",
                                <<"Inheritance complete property mismatch",
                                  src_inheritance.name>>)>>]
       ELSE [err_info |-> <<>>, flag |-> TRUE, errors |-> <<>>]

\* validate_inheritances, line 313
ValidateInheritancesBegin ==
    /\ pc = "validate_inheritances"
    /\ pool' \in SetOrders(solution_model.inheritances)
    /\ idx' = 1
    /\ pc' = "inheritances_loop"
    /\ UNCHANGED <<caller_vars, src_model, solution_model, error_log, exc, cur_src, cur_sol,
                   sub_pool, sub_idx, err_info, matches>>

\* the inner loop of line 315: the first inheritance of the pool that qualifies
FirstInheritance(src_inheritance, unmatched_sol_inheritances) ==
    IF \E k \in 1..Len(unmatched_sol_inheritances) :
          validate_inheritance(src_inheritance, unmatched_sol_inheritances[k]).flag
    THEN CHOOSE k \in 1..Len(unmatched_sol_inheritances) :
            /\ validate_inheritance(src_inheritance, unmatched_sol_inheritances[k]).flag
            /\ \A j \in 1..(k - 1) :
                  ~validate_inheritance(src_inheritance, unmatched_sol_inheritances[j]).flag
    ELSE 0

\* one iteration of the outer loop of validate_inheritances, lines 314-326.
\* err_info is a local of validate_inheritances: it keeps the value the last
\* call of validate_inheritance left, and is unbound until the first call
ValidateInheritancesStep ==
    /\ pc = "inheritances_loop"
    /\ idx <= Len(src_model.inheritances)
    /\ LET src_inheritance == src_model.inheritances[idx]
           m == FirstInheritance(src_inheritance, pool)
           last == validate_inheritance(src_inheritance, pool[Len(pool)])
       IN IF m # 0
          THEN /\ pool' = RemoveAt(pool, m)
               /\ matches' = Append(matches, <<"Inheritance", src_inheritance.id, pool[m].id>>)
               /\ error_log' = error_log \o validate_inheritance(src_inheritance, pool[m]).errors
               /\ err_info' = [state |-> "None", info |-> <<>>]
               /\ idx' = idx + 1
               /\ UNCHANGED <<pc, exc>>
          ELSE IF Len(pool) > 0
          THEN /\ err_info' = [state |-> "info", info |-> last.err_info]
               /\ error_log' = error_log \o last.err_info
               /\ idx' = idx + 1
               /\ UNCHANGED <<pc, exc, pool, matches>>
          ELSE IF err_info.state = "unbound"
          THEN /\ pc' = "raised"
               /\ exc' = "UnboundLocalError"
               /\ UNCHANGED <<error_log, err_info, idx, pool, matches>>
          ELSE IF err_info.state = "info"
          THEN /\ error_log' = error_log \o err_info.info
               /\ idx' = idx + 1
               /\ UNCHANGED <<pc, exc, err_info, pool, matches>>
          ELSE /\ error_log' = add_error(error_log, "Inheritance", src_inheritance.id,
                                   <<src_inheritance.name>>, "Error",
                                   <<"Inheritance not found in solution model",
                                     src_inheritance.name>>)
               /\ idx' = idx + 1
               /\ UNCHANGED <<pc, exc, err_info, pool, matches>>
    /\ UNCHANGED <<caller_vars, src_model, solution_model, cur_src, cur_sol, sub_pool, sub_idx>>

\* validate_inheritances, lines 328-331
ValidateInheritancesEnd ==
    /\ pc = "inheritances_loop"
    /\ idx > Len(src_model.inheritances)
    /\ error_log' = error_log \o
          [k \in 1..Len(pool) |->
              Error("Inheritance", None, None, "Error",
                    <<"Unmatched inheritance in solution model", pool[k].name>>)]
    /\ pc' = AfterPass("validate_inheritances")
    /\ UNCHANGED <<caller_vars, src_model, solution_model, exc, pool, idx, cur_src, cur_sol,
                   sub_pool, sub_idx, err_info, matches>>

\* validate_association: [result ("True", "False", or "None" when the function
\* falls off its end), errors logged by the call]
validate_association(src_association, solution_association) ==
    LET attribute_scores ==
            Concat([a \in 1..Len(src_association.attributes) |->
                      [b \in 1..Len(solution_association.attributes) |->
                          compare_word(src_association.attributes[a].name,
                                       <<solution_association.attributes[b].name>>)[2]]])
    IN IF /\ Len(src_association.attributes) = Len(solution_association.attributes)
          /\ Len(src_association.attributes) = 0
       THEN [result |-> "True", errors |-> <<>>]
       ELSE IF \A x \in 1..Len(attribute_scores) :
                  ScoreLT(attribute_scores[x], name_match_threshold)
       THEN [result |-> "False",
             errors |-> <<Error("Association", src_association.id,
                                <<src_association.name>>, "Error",
                                <<"Association attributes mismatch">>)>>]
       ELSE [result |-> "None", errors |-> <<>>]

\* validate_associations, lines 362-363
ValidateAssociationsBegin ==
    /\ pc = "validate_associations"
    /\ pool' \in SetOrders(solution_model.associations)
    /\ idx' = 1
    /\ pc' = "associations_loop"
    /\ UNCHANGED <<caller_vars, src_model, solution_model, error_log, exc, cur_src, cur_sol,
                   sub_pool, sub_idx, err_info, matches>>

\* lines 367-368: the name of the candidate scores above the threshold
AssociationNamed(src_entity_association, solution_entity_association) ==
    ScoreGT(compare_word(src_entity_association.name,
                         <<solution_entity_association.name>>)[2],
            name_match_threshold)

\* the inner loop of lines 366-372 from candidate k on: [index of the candidate
\* that broke the loop (0: none), errors logged on the way]
RECURSIVE AssociationsInnerLoop(_, _, _, _)
AssociationsInnerLoop(src_entity_association, solution_entity_associations, k, errors) ==
    IF k > Len(solution_entity_associations)
    THEN [index |-> 0, errors |-> errors]
    ELSE IF ~AssociationNamed(src_entity_association, solution_entity_associations[k])
         THEN AssociationsInnerLoop(src_entity_association,
                                    solution_entity_associations, k + 1, errors)
         ELSE IF validate_association(src_entity_association,
                                      solution_entity_associations[k]).result = "True"
              THEN [index |-> k,
                    errors |-> errors \o
                        validate_association(src_entity_association,
                                             solution_entity_associations[k]).errors]
              ELSE AssociationsInnerLoop(
                       src_entity_association, solution_entity_associations, k + 1,
                       errors \o validate_association(src_entity_association,
                                                      solution_entity_associations[k]).errors)

\* one iteration of the outer loop of validate_associations, lines 365-375
ValidateAssociationsStep ==
    /\ pc = "associations_loop"
    /\ idx <= Len(src_model.associations)
    /\ LET src_entity_association == src_model.associations[idx]
           r == AssociationsInnerLoop(src_entity_association, pool, 1, <<>>)
       IN IF r.index # 0
          THEN /\ pool' = RemoveAt(pool, r.index)
               /\ matches' = Append(matches, <<"Association", src_entity_association.id,
                                               pool[r.index].id>>)
               /\ error_log' = error_log \o r.errors
          ELSE /\ error_log' = add_error(error_log \o r.errors, "Association",
                                   src_entity_association.id,
                                   <<src_entity_association.name>>, "Error",
                                   <<"Association not found in solution model",
                                     src_entity_association.name>>)
               /\ UNCHANGED <<pool, matches>>
    /\ idx' = idx + 1
    /\ UNCHANGED <<caller_vars, src_model, solution_model, pc, exc, cur_src, cur_sol,
                   sub_pool, sub_idx, err_info>>

\* validate_associations, lines 376-379
ValidateAssociationsEnd ==
    /\ pc = "associations_loop"
    /\ idx > Len(src_model.associations)
    /\ error_log' = error_log \o
          [k \in 1..Len(pool) |->
              Error("Association", None, None, "Error",
                    <<"Unmatched association in solution model", pool[k].name>>)]
    /\ pc' = AfterPass("validate_associations")
    /\ UNCHANGED <<caller_vars, src_model, solution_model, exc, pool, idx, cur_src, cur_sol,
                   sub_pool, sub_idx, err_info, matches>>

\* validate_association_link, lines 388-392
validate_association_link(src_link, solution_link) ==
    LET score == compare_word(src_link.association.name,
                              <<solution_link.association.name>>)[2]
        score2 == compare_word(src_link.entity.name, <<solution_link.entity.name>>)[2]
    IN ScoreGT(score, name_match_threshold) /\ ScoreGT(score2, name_match_threshold)

\* validate_association_links, lines 398-399
ValidateAssociationLinksBegin ==
    /\ pc = "validate_association_links"
    /\ pool' \in SetOrders(solution_model.association_links)
    /\ idx' = 1
    /\ pc' = "association_links_loop"
    /\ UNCHANGED <<caller_vars, src_model, solution_model, error_log, exc, cur_src, cur_sol,
                   sub_pool, sub_idx, err_info, matches>>

\* the inner loop of line 402 up to its first accepted link; 0 when none is
FirstAssociationLink(src_link, solution_links) ==
    IF \E k \in 1..Len(solution_links) :
          validate_association_link(src_link, solution_links[k])
    THEN CHOOSE k \in 1..Len(solution_links) :
            /\ validate_association_link(src_link, solution_links[k])
            /\ \A j \in 1..(k - 1) : ~validate_association_link(src_link, solution_links[j])
    ELSE 0

\* one iteration of the outer loop of validate_association_links, lines 401-414.
\* After a cardinality mismatch the inner loop is not left: it asks the set's
\* iterator for the next link after the set changed size, and the iterator
\* raises RuntimeError
ValidateAssociationLinksStep ==
    /\ pc = "association_links_loop"
    /\ idx <= Len(src_model.association_links)
    /\ LET src_link == src_model.association_links[idx]
           m == FirstAssociationLink(src_link, pool)
       IN IF m # 0
          THEN /\ pool' = RemoveAt(pool, m)
               /\ matches' = Append(matches, <<"Association Link", src_link.id, pool[m].id>>)
               /\ IF src_link.cardinality = pool[m].cardinality
                  THEN /\ idx' = idx + 1
                       /\ UNCHANGED <<error_log, pc, exc>>
                  ELSE /\ error_log' = add_error(error_log, "Association Link", src_link.id,
                                           <<src_link.association.name>>, "Error",
                                           <<"Association link cardinality mismatch",
                                             src_link.association.name, src_link.entity.name>>)
                       /\ pc' = "raised"
                       /\ exc' = "RuntimeError"
                       /\ UNCHANGED idx
          ELSE /\ error_log' = add_error(error_log, "Association Link", src_link.id,
                                   <<src_link.association.name>>, "Error",
                                   <<"Association link not found in solution model",
                                     src_link.association.name, src_link.entity.name>>)
               /\ idx' = idx + 1
               /\ UNCHANGED <<pool, matches, pc, exc>>
    /\ UNCHANGED <<caller_vars, src_model, solution_model, cur_src, cur_sol, sub_pool, sub_idx, err_info>>

\* validate_association_links, lines 416-419; validate() then returns
ValidateAssociationLinksEnd ==
    /\ pc = "association_links_loop"
    /\ idx > Len(src_model.association_links)
    /\ error_log' = error_log \o
          [k \in 1..Len(pool) |->
              Error("Association Link", None, None, "Error",
                    <<"Unmatched association link in solution model",
                      pool[k].association.name, pool[k].entity.name>>)]
    /\ pc' = AfterPass("validate_association_links")
    /\ UNCHANGED <<caller_vars, src_model, solution_model, exc, pool, idx, cur_src, cur_sol,
                   sub_pool, sub_idx, err_info, matches>>

Next ==
    \/ ValidateEntitiesBegin
    \/ ValidateEntitiesStep
    \/ ValidateAttributesStep
    \/ ValidateAttributesEnd
    \/ ValidateIdentifiersStep
    \/ ValidateIdentifiersEnd
    \/ ValidateEntitiesEnd
    \/ ValidateRelationshipsBegin
    \/ ValidateRelationshipsStep
    \/ ValidateRelationshipsEnd
    \/ ValidateInheritancesBegin
    \/ ValidateInheritancesStep
    \/ ValidateInheritancesEnd
    \/ ValidateAssociationsBegin
    \/ ValidateAssociationsStep
    \/ ValidateAssociationsEnd
    \/ ValidateAssociationLinksBegin
    \/ ValidateAssociationLinksStep
    \/ ValidateAssociationLinksEnd

Spec == Init /\ [][Next]_vars

-----------------------------------------------------------------------------
(* WordMatch.py called on its own.  A call (the method and its arguments)  *)
(* is drawn from bounded sets, then the method runs and returns.           *)

MaxWordLen == 2
MaxCandidateLen == 1
MaxCandidates == 2

Alphabet == {"a", "A", "B"}

KITTEN == <<"K", "I", "T", "T", "E", "N">>
SITTING == <<"S", "I", "T", "T", "I", "N", "G">>
abc == <<"a", "b", "c">>
ABC == <<"A", "B", "C">>

\* the arguments s1, s2 and src_w
Words == SeqsUpTo(Alphabet, MaxWordLen) \cup {KITTEN, SITTING, abc, ABC}

\* the words a list sol_words is made of
CandidateWords == SeqsUpTo(Alphabet, MaxCandidateLen) \cup {abc, ABC}

validation_vars == <<src_model, solution_model, error_log, pc, exc, pool, idx,
                     cur_src, cur_sol, sub_pool, sub_idx, err_info, matches>>

\* wm = WordMatch(), and one call of one of its methods
WordInit ==
    /\ \/ \E s1 \in Words, s2 \in Words :
             wm_call = [method |-> "levenshtein_distance", args |-> <<s1, s2>>]
       \/ \E s1 \in Words, s2 \in Words :
             wm_call = [method |-> "similarity_score", args |-> <<s1, s2>>]
       \/ \E src_w \in Words, sol_words \in SeqsUpTo(CandidateWords, MaxCandidates) :
             wm_call = [method |-> "compare_word", args |-> <<src_w, sol_words>>]
    /\ wm_return = None
    /\ find_call = None
    /\ find_return = None
    /\ pass_order = validate_order
    /\ reference_log = None
    /\ directory = <<>>
    /\ file_idx = 0
    /\ runs = <<>>
    /\ src_model = None
    /\ solution_model = None
    /\ error_log = <<>>
    /\ pc = "word_match"
    /\ exc = ""
    /\ pool = <<>>
    /\ idx = 0
    /\ cur_src = None
    /\ cur_sol = None
    /\ sub_pool = <<>>
    /\ sub_idx = 0
    /\ err_info = [state |-> "unbound", info |-> <<>>]
    /\ matches = <<>>

\* levenshtein_distance, lines 9-27; the returned value is wm_return[1]
LevenshteinDistance ==
    /\ wm_call.method = "levenshtein_distance"
    /\ wm_return = None
    /\ wm_return' = <<levenshtein_distance(wm_call.args[1], wm_call.args[2])>>
    /\ UNCHANGED <<wm_call, validation_vars, find_vars, batch_vars, order_vars>>

\* similarity_score, lines 29-34
SimilarityScore ==
    /\ wm_call.method = "similarity_score"
    /\ wm_return = None
    /\ wm_return' = <<similarity_score(wm_call.args[1], wm_call.args[2])>>
    /\ UNCHANGED <<wm_call, validation_vars, find_vars, batch_vars, order_vars>>

\* compare_word, lines 37-45
CompareWord ==
    /\ wm_call.method = "compare_word"
    /\ wm_return = None
    /\ wm_return' = <<compare_word(wm_call.args[1], wm_call.args[2])>>
    /\ UNCHANGED <<wm_call, validation_vars, find_vars, batch_vars, order_vars>>

WordNext ==
    \/ LevenshteinDistance
    \/ SimilarityScore
    \/ CompareWord

WordSpec == WordInit /\ [][WordNext]_vars

-----------------------------------------------------------------------------
(* ErrorLog.py called on its own.  A log and the id to look up are drawn   *)
(* from bounded sets, then find_error runs and returns.                    *)

MaxErrors == 3

\* the subject ids of the records; None is the id of an 'unmatched' record
LogIds == {<<"E", "1">>, <<"E", "2">>, None}

\* the ids looked up; <<"E", "3">> is the id of no record
LookupIds == LogIds \cup {<<"E", "3">>}

LogRecords ==
    {Error("Entity", id, nmA, "Error", <<text>>) :
        id \in LogIds, text \in {"Entity not found in solution model", "Entity is a child"}}

\* error_log = ErrorLog() after some calls of add_error, and one call of find_error
ErrorLogInit ==
    /\ error_log \in SeqsUpTo(LogRecords, MaxErrors)
    /\ \E object_id \in LookupIds : find_call = <<object_id>>
    /\ find_return = None
    /\ pass_order = validate_order
    /\ reference_log = None
    /\ wm_call = None
    /\ wm_return = None
    /\ directory = <<>>
    /\ file_idx = 0
    /\ runs = <<>>
    /\ src_model = None
    /\ solution_model = None
    /\ pc = "error_log"
    /\ exc = ""
    /\ pool = <<>>
    /\ idx = 0
    /\ cur_src = None
    /\ cur_sol = None
    /\ sub_pool = <<>>
    /\ sub_idx = 0
    /\ err_info = [state |-> "unbound", info |-> <<>>]
    /\ matches = <<>>

\* find_error, lines 37-47; the returned pair is find_return[1]
FindError ==
    /\ find_return = None
    /\ find_return' = <<find_error(error_log, find_call[1])>>
    /\ UNCHANGED <<find_call, validation_vars, word_vars, batch_vars, order_vars>>

ErrorLogNext == FindError

ErrorLogSpec == ErrorLogInit /\ [][ErrorLogNext]_vars

-----------------------------------------------------------------------------
(* CDMvalidator.py: batch_verification_mode calls normal_validation_mode   *)
(* on every .cdm file of a directory, against one solution file.           *)

MaxFiles == 3

\* the entities of the solution graph: one with an attribute and an identifier
\* over it, a plain one, and the child of an inheritance
BatchKeyed ==
    Entity(<<"E", "1">>, nmB, AttributesOf(<<<<nmA, "I", TRUE>>>>),
           FlaggedIdentifiers(nmA, <<TRUE>>))
BatchPlain == Entity(<<"E", "2">>, nmC, <<>>, <<>>)
BatchChild == Entity(<<"E", "3">>, nmA, <<>>, <<>>)

\* a graph with one object of every category; the cardinalities are those of
\* its relationship and of its association link
BatchGraph(relationship_cardinality, link_cardinality) ==
    Model(<<BatchKeyed, BatchPlain, BatchChild>>,
          <<Inheritance(<<"H", "1">>, <<"H", "1">>, TRUE, TRUE,
                        Ref(BatchKeyed), <<Ref(BatchChild)>>)>>,
          RelationshipsOf(<<<<nmA, BatchKeyed, BatchPlain, relationship_cardinality,
                              "1,1", FALSE>>>>),
          AssociationsOf(<<<<nmA, <<>>>>>>),
          <<AssociationLink(<<"L", "1">>, Ref(AssociationsOf(<<<<nmA, <<>>>>>>)[1]),
                            Ref(BatchPlain), link_cardinality)>>)

\* the graph of the solution file
BatchSolution == BatchGraph("0,n", "0,n")

\* the files a directory may hold: a copy of the solution, a graph whose
\* relationship differs in a cardinality, a graph whose association link
\* differs in its cardinality, a file that is no XML, a file with a reference
\* to an entity that does not exist, and a file that is no .cdm file
BatchFiles ==
    {[stem |-> s, ext |-> ".cdm"] :
        s \in {"copy", "relationship", "link", "unparseable", "unlinkable"}}
        \cup {[stem |-> "copy", ext |-> ".txt"]}

\* CDMParser(path).get_main_model(): the graph, or the exception it raises.
\* ET.parse fails on a file that is no XML, __init__ swallows the exception
\* and get_main_model then reads self.root, which was never set; the link_*
\* methods index an empty list when a reference resolves to no entity.
get_main_model(file) ==
    CASE file.stem = "copy" -> [exc |-> "", model |-> BatchSolution]
      [] file.stem = "relationship" -> [exc |-> "", model |-> BatchGraph("1,n", "0,n")]
      [] file.stem = "link" -> [exc |-> "", model |-> BatchGraph("0,n", "1,n")]
      [] file.stem = "unparseable" -> [exc |-> "AttributeError", model |-> None]
      [] file.stem = "unlinkable" -> [exc |-> "IndexError", model |-> None]

\* the record of a finished call of normal_validation_mode: the file, the
\* exception its try block caught ("" for none), whether a Validation object
\* was made, and the log of that object
Run(file, caught, validated, log) ==
    [file |-> file, exc |-> caught, validated |-> validated, log |-> log]

BatchInit ==
    /\ directory \in SeqsUpTo(BatchFiles, MaxFiles)
    /\ file_idx = 1
    /\ runs = <<>>
    /\ pc = "batch_loop"
    /\ src_model = None
    /\ solution_model = None
    /\ error_log = <<>>
    /\ exc = ""
    /\ pool = <<>>
    /\ idx = 0
    /\ cur_src = None
    /\ cur_sol = None
    /\ sub_pool = <<>>
    /\ sub_idx = 0
    /\ err_info = [state |-> "unbound", info |-> <<>>]
    /\ matches = <<>>
    /\ wm_call = None
    /\ wm_return = None
    /\ find_call = None
    /\ find_return = None
    /\ pass_order = validate_order
    /\ reference_log = None

\* batch_verification_mode, lines 45-47: a file that is no .cdm file is passed over
BatchSkipFile ==
    /\ pc = "batch_loop"
    /\ file_idx <= Len(directory)
    /\ directory[file_idx].ext # ".cdm"
    /\ file_idx' = file_idx + 1
    /\ UNCHANGED <<directory, runs, validation_vars, word_vars, find_vars, order_vars>>

\* a driver without the try block of normal_validation_mode: the exception
\* reaches the except clause of batch_verification_mode, which ends its loop
NormalValidationParseFailsUncaught ==
    /\ pc = "batch_loop"
    /\ file_idx <= Len(directory)
    /\ directory[file_idx].ext = ".cdm"
    /\ get_main_model(directory[file_idx]).exc # ""
    /\ runs' = Append(runs, Run(file_idx, get_main_model(directory[file_idx]).exc, FALSE, <<>>))
    /\ file_idx' = Len(directory) + 1
    /\ UNCHANGED <<directory, validation_vars, word_vars, find_vars, order_vars>>

\* normal_validation_mode, lines 13-22 and 32-37: parsing or linking the source
\* file raises, the except clauses print the exception and the call returns
NormalValidationParseFails ==
    /\ pc = "batch_loop"
    /\ file_idx <= Len(directory)
    /\ directory[file_idx].ext = ".cdm"
    /\ get_main_model(directory[file_idx]).exc # ""
    /\ runs' = Append(runs, Run(file_idx, get_main_model(directory[file_idx]).exc, FALSE, <<>>))
    /\ file_idx' = file_idx + 1
    /\ UNCHANGED <<directory, validation_vars, word_vars, find_vars, order_vars>>

\* normal_validation_mode, lines 13-26: both files parse, a Validation object
\* is made with its own WordMatch and its own empty ErrorLog (Validation.py
\* 24-28), and validate() is entered
NormalValidationBegin ==
    /\ pc = "batch_loop"
    /\ file_idx <= Len(directory)
    /\ directory[file_idx].ext = ".cdm"
    /\ get_main_model(directory[file_idx]).exc = ""
    /\ src_model' = get_main_model(directory[file_idx]).model
    /\ solution_model' = BatchSolution
    /\ error_log' = <<>>
    /\ pc' = "validate_entities"
    /\ exc' = ""
    /\ pool' = <<>>
    /\ idx' = 0
    /\ cur_src' = None
    /\ cur_sol' = None
    /\ sub_pool' = <<>>
    /\ sub_idx' = 0
    /\ err_info' = [state |-> "unbound", info |-> <<>>]
    /\ matches' = <<>>
    /\ UNCHANGED <<batch_vars, word_vars, find_vars, order_vars>>

\* normal_validation_mode, lines 26-37: validate() returned, or raised and the
\* except clause printed the exception; either way the call returns and the
\* loop of batch_verification_mode takes the next file
NormalValidationEnd ==
    /\ pc \in {"done", "raised"}
    /\ runs' = Append(runs, Run(file_idx, exc, TRUE, error_log))
    /\ file_idx' = file_idx + 1
    /\ pc' = "batch_loop"
    /\ UNCHANGED <<directory, src_model, solution_model, error_log, exc, pool, idx,
                   cur_src, cur_sol, sub_pool, sub_idx, err_info, matches,
                   word_vars, find_vars, order_vars>>

BatchNext ==
    \/ BatchSkipFile
    \/ NormalValidationParseFails
    \/ NormalValidationBegin
    \/ NormalValidationEnd
    \/ Next

BatchSpec == BatchInit /\ [][BatchNext]_vars

-----------------------------------------------------------------------------
(* validate() with its five calls in another order: a run in the order of  *)
(* the source, whose log is kept, then a run of the same two graphs with   *)
(* the calls permuted.                                                     *)

\* the cardinalities a relationship or an association link of the source has
OrderCardinalities == {"0,n", "1,n"}

OrderInit ==
    /\ \E r \in OrderCardinalities, l \in OrderCardinalities :
          src_model = BatchGraph(r, l)
    /\ solution_model = BatchSolution
    /\ error_log = <<>>
    /\ pc = "validate_entities"
    /\ exc = ""
    /\ pool = <<>>
    /\ idx = 0
    /\ cur_src = None
    /\ cur_sol = None
    /\ sub_pool = <<>>
    /\ sub_idx = 0
    /\ err_info = [state |-> "unbound", info |-> <<>>]
    /\ matches = <<>>
    /\ wm_call = None
    /\ wm_return = None
    /\ find_call = None
    /\ find_return = None
    /\ directory = <<>>
    /\ file_idx = 0
    /\ runs = <<>>
    /\ pass_order = validate_order
    /\ reference_log = None

\* a new Validation object over the same two graphs (lines 24-28), whose
\* validate() calls the five passes in some order
ValidateInAnotherOrder ==
    /\ pc \in {"done", "raised"}
    /\ reference_log = None
    /\ reference_log' = <<error_log>>
    /\ pass_order' \in SetOrders(validate_order)
    /\ error_log' = <<>>
    /\ pc' = pass_order'[1]
    /\ exc' = ""
    /\ pool' = <<>>
    /\ idx' = 0
    /\ cur_src' = None
    /\ cur_sol' = None
    /\ sub_pool' = <<>>
    /\ sub_idx' = 0
    /\ err_info' = [state |-> "unbound", info |-> <<>>]
    /\ matches' = <<>>
    /\ UNCHANGED <<src_model, solution_model, word_vars, find_vars, batch_vars>>

OrderNext ==
    \/ ValidateInAnotherOrder
    \/ Next

OrderSpec == OrderInit /\ [][OrderNext]_vars

-----------------------------------------------------------------------------
(* Properties of validate().                                               *)

\* validate() has returned or an exception has left it
Finished == pc \in {"done", "raised"}

\* the entries of the log about object id of category type
DiagnosticsOf(type, id) ==
    {k \in 1..Len(error_log) : error_log[k].type = type /\ error_log[k].id = id}

\* the entries of the log about object id of category type whose message is text
DiagnosticsWith(type, id, text) ==
    {k \in DiagnosticsOf(type, id) : error_log[k].message[1] = text}

\* the source object id of category type has claimed a solution object
Claimed(type, id) ==
    \E m \in 1..Len(matches) : matches[m][1] = type /\ matches[m][2] = id

\* the solution object id of category type has been claimed
ClaimedSolution(type, id) ==
    \E m \in 1..Len(matches) : matches[m][1] = type /\ matches[m][3] = id

\* C1: validate() with a solution that is a structurally identical copy of the
\* source, names included, ends with an empty diagnostic log
C1_IdenticalCopyEmptyLog ==
    (solution_model = src_model /\ Finished) => (pc = "done" /\ error_log = <<>>)

\* C2: validate() never raises: whatever the two linked graphs, no exception
\* leaves validate()
C2_ValidateNeverRaises == pc # "raised" /\ exc = ""

\* the position in objects of the object id
PositionOf(objects, id) == CHOOSE k \in 1..Len(objects) : objects[k].id = id

\* sequence is objects with some objects removed, order kept
InGraphOrder(sequence, objects) ==
    \A i, j \in 1..Len(sequence) :
        i < j => PositionOf(objects, sequence[i].id) < PositionOf(objects, sequence[j].id)

\* C3: every unmatched-solution pool is an order-preserving sequence seeded in
\* the solution graph's order, so that the candidates claimed and the order of
\* the unmatched-solution diagnostics are functions of the two graphs alone
C3_PoolsInGraphOrder ==
    /\ pc \in {"entities_loop", "attributes_loop", "identifiers_loop", "identifiers_break"}
          => InGraphOrder(pool, solution_model.entities)
    /\ pc = "attributes_loop"
          => InGraphOrder(sub_pool, get_attributes(solution_model, cur_sol.id))
    /\ pc \in {"identifiers_loop", "identifiers_break"}
          => InGraphOrder(sub_pool, get_identifiers(solution_model, cur_sol.id))
    /\ pc = "relationships_loop" => InGraphOrder(pool, solution_model.relationships)
    /\ pc = "inheritances_loop" => InGraphOrder(pool, solution_model.inheritances)
    /\ pc = "associations_loop" => InGraphOrder(pool, solution_model.associations)
    /\ pc = "association_links_loop"
          => InGraphOrder(pool, solution_model.association_links)

\* the source object id of category type claimed a solution object or has a
\* diagnostic of its category logged for it
Settled(type, id) == Claimed(type, id) \/ DiagnosticsOf(type, id) # {}

\* every object of the sequence is settled
AllSettled(type, objects) == \A k \in 1..Len(objects) : Settled(type, objects[k].id)

\* C4: no source object is silently dropped: when validate() returns, every
\* source entity, every identifier of a matched source entity, and every source
\* relationship, inheritance, association and association link has claimed a
\* solution object or has a diagnostic logged for it
C4_NoSourceObjectDropped ==
    pc = "done" =>
        /\ AllSettled("Entity", src_model.entities)
        /\ \A e \in 1..Len(src_model.entities) :
              Claimed("Entity", src_model.entities[e].id)
                  => AllSettled("Identifier", src_model.entities[e].identifiers)
        /\ AllSettled("Relationship", src_model.relationships)
        /\ AllSettled("Inheritance", src_model.inheritances)
        /\ AllSettled("Association", src_model.associations)
        /\ AllSettled("Association Link", src_model.association_links)

\* validate_entities is running: its loop, or the passes over a matched pair
InEntityPass ==
    pc \in {"validate_entities", "entities_loop", "attributes_loop",
            "identifiers_loop", "identifiers_break"}

\* the 'Unmatched entity in solution model' diagnostics that name name
UnmatchedEntityDiagnostics(name) ==
    {k \in 1..Len(error_log) :
        /\ error_log[k].type = "Entity"
        /\ error_log[k].message[1] = "Unmatched entity in solution model"
        /\ error_log[k].message[2] = name}

\* the solution entities named name that no source entity claimed
UnclaimedEntities(name) ==
    {k \in 1..Len(solution_model.entities) :
        /\ solution_model.entities[k].name = name
        /\ ~ClaimedSolution("Entity", solution_model.entities[k].id)}

\* C5: the entity pass emits exactly one 'Unmatched entity in solution model'
\* diagnostic, naming the entity, for every solution entity that no source
\* entity claimed, and none for a claimed one: the log holds them once the run
\* has left validate_entities, none while validate_entities is still going
\* through the source entities, and every one names a solution entity
C5_UnmatchedEntityDiagnostics ==
    /\ \A k \in 1..Len(solution_model.entities) :
          Cardinality(UnmatchedEntityDiagnostics(solution_model.entities[k].name))
              = IF InEntityPass THEN 0
                ELSE Cardinality(UnclaimedEntities(solution_model.entities[k].name))
    /\ \A d \in 1..Len(error_log) :
          error_log[d].message[1] = "Unmatched entity in solution model"
              => \E k \in 1..Len(solution_model.entities) :
                    d \in UnmatchedEntityDiagnostics(solution_model.entities[k].name)

\* the similarity of two names is above 0.85
Similar(a, b) == ScoreGT(WordScore(a, b), <<17, 20>>)

\* solution entity t is the counterpart of source entity s: the two names are
\* similar, and neither is similar to the name of another entity of the other graph
Counterpart(s, t) ==
    /\ Similar(src_model.entities[s].name, solution_model.entities[t].name)
    /\ \A u \in 1..Len(solution_model.entities) :
          u # t => ~Similar(src_model.entities[s].name, solution_model.entities[u].name)
    /\ \A r \in 1..Len(src_model.entities) :
          r # s => ~Similar(src_model.entities[r].name, solution_model.entities[t].name)

\* the loop of validate_entities has taken source entity s, or the run has
\* left validate_entities
EntityProcessed(s) ==
    IF InEntityPass
    THEN s < idx \/ (s = idx /\ pc \notin {"validate_entities", "entities_loop"})
    ELSE TRUE

\* C6: a source entity whose name is similar (> 0.85) to the name of its
\* solution counterpart is matched to that counterpart, at the latest when the
\* run leaves validate_entities, and no 'not found' diagnostic for the source
\* entity and no 'Unmatched entity' diagnostic for the counterpart is ever logged
C6_RenamedEntityMatches ==
    \A s \in 1..Len(src_model.entities) : \A t \in 1..Len(solution_model.entities) :
        Counterpart(s, t) =>
            /\ EntityProcessed(s) =>
                  \E m \in 1..Len(matches) :
                      matches[m] = <<"Entity", src_model.entities[s].id,
                                     solution_model.entities[t].id>>
            /\ DiagnosticsWith("Entity", src_model.entities[s].id,
                               "Entity not found in solution model") = {}
            /\ DiagnosticsWith("Entity", src_model.entities[s].id,
                               "Matching entity not found in solution model or already matched") = {}
            /\ UnmatchedEntityDiagnostics(solution_model.entities[t].name) = {}

\* C7: when the solution is the source with the mandatory flag of exactly one
\* attribute of one entity negated, the whole run logs exactly one diagnostic,
\* the 'mandatory property mismatch' naming that attribute
C7_OneMandatoryFlipOneDiagnostic ==
    \A e \in 1..Len(src_model.entities) :
        \A a \in 1..Len(src_model.entities[e].attributes) :
            (solution_model = FlipMandatory(src_model, e, a) /\ Finished) =>
                /\ pc = "done"
                /\ Len(error_log) = 1
                /\ error_log[1].type = "Attribute"
                /\ error_log[1].message =
                       <<"Attribute mandatory property mismatch",
                         src_model.entities[e].attributes[a].name>>

\* the two relationships differ in the cardinality of one direction or both
CardinalityDiffers(src_relationship, sol_relationship) ==
    \/ src_relationship.cardinality_1to2 # sol_relationship.cardinality_1to2
    \/ src_relationship.cardinality_2to1 # sol_relationship.cardinality_2to1

\* C8: a matched relationship pair that differs in cardinality, in one
\* direction or in both, has exactly one cardinality-mismatch diagnostic for
\* the source relationship and no 'not found' diagnostic; a matched pair that
\* does not differ has none
C8_OneCardinalityDiagnostic ==
    \A m \in 1..Len(matches) :
        matches[m][1] = "Relationship" =>
            /\ Cardinality(DiagnosticsWith("Relationship", matches[m][2],
                                           "Relationship cardinality mismatch"))
                   = IF CardinalityDiffers(ById(src_model.relationships, matches[m][2]),
                                           ById(solution_model.relationships, matches[m][3]))
                     THEN 1 ELSE 0
            /\ DiagnosticsWith("Relationship", matches[m][2],
                               "Relationship not found in solution model") = {}

\* validate() has returned with a matched relationship pair that differs in
\* the cardinality of both directions
C8_Witness ==
    /\ pc = "done"
    /\ \E m \in 1..Len(matches) :
          /\ matches[m][1] = "Relationship"
          /\ ById(src_model.relationships, matches[m][2]).cardinality_1to2
                 # ById(solution_model.relationships, matches[m][3]).cardinality_1to2
          /\ ById(src_model.relationships, matches[m][2]).cardinality_2to1
                 # ById(solution_model.relationships, matches[m][3]).cardinality_2to1

\* the loop of validate_identifiers is about to take a source identifier
AtIdentifier ==
    /\ pc = "identifiers_loop"
    /\ sub_idx <= Len(get_identifiers(src_model, cur_src.id))

\* every member attribute name of the source identifier scores >= 0.85 against
\* some member attribute name of the candidate
FullyMatches(src_identifier, candidate) ==
    \A a \in 1..Len(src_identifier.identifier_attributes) :
        \E b \in 1..Len(candidate.identifier_attributes) :
            ScoreGE(WordScore(src_identifier.identifier_attributes[a].name,
                              candidate.identifier_attributes[b].name),
                    <<17, 20>>)

\* the first candidate, in pool order, that fully matches; 0 when none does
FirstFullMatch(src_identifier, candidates) ==
    IF \E k \in 1..Len(candidates) : FullyMatches(src_identifier, candidates[k])
    THEN CHOOSE k \in 1..Len(candidates) :
            /\ FullyMatches(src_identifier, candidates[k])
            /\ \A j \in 1..(k - 1) : ~FullyMatches(src_identifier, candidates[j])
    ELSE 0

\* C9: a step of validate_identifiers claims, for the source identifier it
\* takes, the first identifier of the pool, in pool order, every member
\* attribute name of the source identifier scores >= 0.85 against some member
\* of, whichever other identifiers the pool holds, and claims none when no
\* identifier of the pool is such
C9_FirstFullMatchClaimed ==
    [][AtIdentifier =>
          LET src_identifier == get_identifiers(src_model, cur_src.id)[sub_idx]
              k == FirstFullMatch(src_identifier, sub_pool)
          IN IF k # 0
             THEN /\ sub_pool' = RemoveAt(sub_pool, k)
                  /\ matches' = Append(matches, <<"Identifier", src_identifier.id,
                                                  sub_pool[k].id>>)
             ELSE /\ sub_pool' = sub_pool
                  /\ matches' = matches]_vars

\* the identifier with its member attributes in the order p
Reordered(identifier, p) ==
    [identifier EXCEPT !.identifier_attributes =
        [k \in 1..Len(identifier.identifier_attributes) |->
            identifier.identifier_attributes[p[k]]]]

\* the identifier under every permutation of its member-attribute list
Reorderings(identifier) ==
    {Reordered(identifier, p) :
        p \in Permutations(1..Len(identifier.identifier_attributes))}

\* the pool with the member-attribute list of every identifier permuted
PoolReorderings(identifiers) ==
    {q \in [1..Len(identifiers) ->
               UNION {Reorderings(identifiers[k]) : k \in 1..Len(identifiers)}] :
        \A k \in 1..Len(identifiers) : q[k] \in Reorderings(identifiers[k])}

\* whether the call raised, whether the source identifier matched, and the
\* position in the pool of the identifier it claims
Outcome(r) == <<r.raised, r.flag, r.index>>

\* C10: whether a source identifier matches, and which identifier of the pool
\* it claims, is unchanged by any permutation of the member-attribute list of
\* the source identifier and of every identifier of the pool
C10_IdentifierSetSemantics ==
    AtIdentifier =>
        \A s \in Reorderings(get_identifiers(src_model, cur_src.id)[sub_idx]) :
            \A q \in PoolReorderings(sub_pool) :
                Outcome(validate_identifier_attributes(s, q))
                    = Outcome(validate_identifier_attributes(
                                  get_identifiers(src_model, cur_src.id)[sub_idx], sub_pool))

\* a source identifier of two member attributes is about to claim an
\* identifier of two member attributes listed in another order
C10_Witness ==
    /\ AtIdentifier
    /\ Len(get_identifiers(src_model, cur_src.id)[sub_idx].identifier_attributes) = 2
    /\ validate_identifier_attributes(
           get_identifiers(src_model, cur_src.id)[sub_idx], sub_pool).flag
    /\ \E k \in 1..Len(sub_pool) :
          /\ k = validate_identifier_attributes(
                     get_identifiers(src_model, cur_src.id)[sub_idx], sub_pool).index
          /\ Len(sub_pool[k].identifier_attributes) = 2
          /\ ~Similar(get_identifiers(src_model, cur_src.id)[sub_idx].identifier_attributes[1].name,
                      sub_pool[k].identifier_attributes[1].name)

\* the source inheritance corresponds to the solution inheritance: the parent
\* names are similar (> 0.85) and every source child has a solution child of a
\* similar name, each child searched on its own
Corresponds(src_inheritance, solution_inheritance) ==
    /\ Similar(src_inheritance.parent.name, solution_inheritance.parent.name)
    /\ \A c \in 1..Len(src_inheritance.children) :
          \E d \in 1..Len(solution_inheritance.children) :
              Similar(src_inheritance.children[c].name,
                      solution_inheritance.children[d].name)

\* the loop of validate_inheritances is about to take a source inheritance
AtInheritance ==
    /\ pc = "inheritances_loop"
    /\ idx <= Len(src_model.inheritances)

\* C11: a source inheritance qualifies against an inheritance of the pool iff
\* the parent names score strictly above 0.85 and every source child has some
\* solution child whose name scores strictly above 0.85; a pair in which the
\* parent or a child scores exactly 0.85 does not qualify
C11_InheritanceQualifies ==
    AtInheritance =>
        \A k \in 1..Len(pool) :
            validate_inheritance(src_model.inheritances[idx], pool[k]).flag
                <=> Corresponds(src_model.inheritances[idx], pool[k])

\* the number of diagnostics text logged for the source inheritance id
InheritanceDiagnostics(id, text) ==
    Cardinality(DiagnosticsWith("Inheritance", id, text))

\* C12: for a qualifying (matched) inheritance pair the mutually_exclusive and
\* complete flags are compared independently: one diagnostic is logged for each
\* flag that differs, both when both differ, and none for a flag that agrees
C12_FlagsComparedIndependently ==
    \A m \in 1..Len(matches) :
        matches[m][1] = "Inheritance" =>
            /\ InheritanceDiagnostics(matches[m][2],
                                      "Inheritance mutually exclusive property mismatch")
                   = IF ById(src_model.inheritances, matches[m][2]).mutually_exclusive
                          # ById(solution_model.inheritances, matches[m][3]).mutually_exclusive
                     THEN 1 ELSE 0
            /\ InheritanceDiagnostics(matches[m][2],
                                      "Inheritance complete property mismatch")
                   = IF ById(src_model.inheritances, matches[m][2]).complete
                          # ById(solution_model.inheritances, matches[m][3]).complete
                     THEN 1 ELSE 0

\* the source association corresponds to the solution association: the names
\* are similar (> 0.85), and both have no attributes or every source attribute
\* has a solution attribute of a similar name
AssociationCorresponds(src_association, solution_association) ==
    /\ Similar(src_association.name, solution_association.name)
    /\ \/ /\ Len(src_association.attributes) = 0
          /\ Len(solution_association.attributes) = 0
       \/ \A a \in 1..Len(src_association.attributes) :
             \E b \in 1..Len(solution_association.attributes) :
                 Similar(src_association.attributes[a].name,
                         solution_association.attributes[b].name)

\* the loop of validate_associations is about to take a source association
AtAssociation ==
    /\ pc = "associations_loop"
    /\ idx <= Len(src_model.associations)

\* the log holds a diagnostic text for the object id
Logged(log, id, text) ==
    \E d \in 1..Len(log) : log[d].id = id /\ log[d].message[1] = text

\* C13: a step of validate_associations matches the source association it
\* takes to an association of the pool iff one corresponds to it (names > 0.85
\* and both without attributes, or every source attribute with a solution
\* attribute > 0.85): the matched one corresponds, is removed from the pool, so
\* that no 'Unmatched association' is logged for it, and no 'not found' is
\* logged for the source association; nothing is claimed when none corresponds
C13_AssociationMatches ==
    [][AtAssociation =>
          IF \E k \in 1..Len(pool) :
                AssociationCorresponds(src_model.associations[idx], pool[k])
          THEN /\ \E k \in 1..Len(pool) :
                     /\ AssociationCorresponds(src_model.associations[idx], pool[k])
                     /\ pool' = RemoveAt(pool, k)
                     /\ matches' = Append(matches, <<"Association",
                                                     src_model.associations[idx].id,
                                                     pool[k].id>>)
               /\ ~Logged(error_log', src_model.associations[idx].id,
                          "Association not found in solution model")
          ELSE /\ pool' = pool
               /\ matches' = matches]_vars

\* the source link corresponds to the solution link: the association names
\* and the entity names are similar (> 0.85)
LinkCorresponds(src_link, solution_link) ==
    /\ Similar(src_link.association.name, solution_link.association.name)
    /\ Similar(src_link.entity.name, solution_link.entity.name)

\* the loop of validate_association_links is about to take a source link
AtAssociationLink ==
    /\ pc = "association_links_loop"
    /\ idx <= Len(src_model.association_links)

\* the entries of log that are a cardinality mismatch of the link id
LinkCardinalityDiagnostics(log, id) ==
    {d \in 1..Len(log) :
        /\ log[d].type = "Association Link"
        /\ log[d].id = id
        /\ log[d].message[1] = "Association link cardinality mismatch"}

\* C14: a step of validate_association_links matches the source link it takes
\* to a link of the pool iff one corresponds to it (association names and
\* entity names > 0.85); the matched link is removed from the pool, exactly one
\* cardinality-mismatch diagnostic is logged when the pair differs in
\* cardinality and none when it does not, no 'not found' is logged for the
\* source link, and the search stops: the loop goes on to the next source link
C14_LinkMatchCountsAsFound ==
    [][AtAssociationLink =>
          IF \E k \in 1..Len(pool) :
                LinkCorresponds(src_model.association_links[idx], pool[k])
          THEN /\ \E k \in 1..Len(pool) :
                     /\ LinkCorresponds(src_model.association_links[idx], pool[k])
                     /\ pool' = RemoveAt(pool, k)
                     /\ matches' = Append(matches, <<"Association Link",
                                                     src_model.association_links[idx].id,
                                                     pool[k].id>>)
                     /\ Cardinality(LinkCardinalityDiagnostics(
                                        error_log', src_model.association_links[idx].id))
                            = IF src_model.association_links[idx].cardinality
                                     # pool[k].cardinality
                              THEN 1 ELSE 0
               /\ ~Logged(error_log', src_model.association_links[idx].id,
                          "Association link not found in solution model")
               /\ pc' = "association_links_loop"
               /\ idx' = idx + 1
          ELSE /\ pool' = pool
               /\ matches' = matches]_vars

\* the source relationship corresponds to the solution relationship role to
\* role: entity1 to entity1, entity2 to entity2 and the relationship names are
\* similar (> 0.85)
RelationshipCorresponds(src_relationship, solution_relationship) ==
    /\ Similar(src_relationship.entity1.name, solution_relationship.entity1.name)
    /\ Similar(src_relationship.entity2.name, solution_relationship.entity2.name)
    /\ Similar(src_relationship.name, solution_relationship.name)

\* the two relationships would only correspond with the endpoints swapped
CorrespondsSwapped(src_relationship, solution_relationship) ==
    /\ Similar(src_relationship.entity1.name, solution_relationship.entity2.name)
    /\ Similar(src_relationship.entity2.name, solution_relationship.entity1.name)
    /\ Similar(src_relationship.name, solution_relationship.name)
    /\ ~RelationshipCorresponds(src_relationship, solution_relationship)

\* the loop of validate_relationships is about to take a source relationship
AtRelationship ==
    /\ pc = "relationships_loop"
    /\ idx <= Len(src_model.relationships)

\* C15: a step of validate_relationships matches the source relationship it
\* takes to a relationship of the pool iff one corresponds to it role to role
\* (entity1 names, entity2 names and relationship names all > 0.85): the
\* matched one corresponds and leaves the pool; when none corresponds, also
\* when one would with its endpoints swapped, nothing is claimed
C15_RelationshipRoleToRole ==
    [][AtRelationship =>
          IF \E k \in 1..Len(pool) :
                RelationshipCorresponds(src_model.relationships[idx], pool[k])
          THEN \E k \in 1..Len(pool) :
                  /\ RelationshipCorresponds(src_model.relationships[idx], pool[k])
                  /\ pool' = RemoveAt(pool, k)
                  /\ matches' = Append(matches, <<"Relationship",
                                                  src_model.relationships[idx].id,
                                                  pool[k].id>>)
          ELSE /\ pool' = pool
               /\ matches' = matches]_vars

\* the loop of validate_relationships has gone past a source relationship that
\* claimed nothing while the pool holds a relationship it would correspond to
\* with the endpoints swapped
C15_Witness ==
    /\ pc = "relationships_loop"
    /\ \E r \in 1..Len(src_model.relationships) :
          /\ r < idx
          /\ ~Claimed("Relationship", src_model.relationships[r].id)
          /\ Logged(error_log, src_model.relationships[r].id,
                    "Relationship not found in solution model")
          /\ \E k \in 1..Len(pool) :
                CorrespondsSwapped(src_model.relationships[r], pool[k])


-----------------------------------------------------------------------------
(* WordMatch on its own (specification WordSpec).                          *)

\* the call of the given method has returned
Returned(method) == wm_call.method = method /\ wm_return # None

\* two scores <<numerator, denominator>> are the same number
SameScore(a, b) == a[1] * b[2] = b[1] * a[2]

\* The textbook edit distance: the distance between the first i letters of a
\* and the first j letters of b, with unit cost for an insertion, a deletion
\* and a substitution.
ClassicLevenshtein(a, b) ==
    LET D[i \in 0..Len(a), j \in 0..Len(b)] ==
            IF i = 0 THEN j
            ELSE IF j = 0 THEN i
            ELSE IF a[i] = b[j] THEN D[i - 1, j - 1]
            ELSE 1 + Min3(D[i - 1, j], D[i, j - 1], D[i - 1, j - 1])
    IN D[Len(a), Len(b)]

\* C16: similarity_score(a, b) is 1 - levenshtein(a, b) / max(len(a), len(b)),
\* lies in [0, 1], is 1 for a = b, is the same in either argument order, is
\* 1.0 for two empty strings and 0.0 for "" against "ABC".
C16_SimilarityScore ==
    Returned("similarity_score") =>
        LET a == wm_call.args[1]
            b == wm_call.args[2]
            score == wm_return[1]
            max_len == IF Len(a) >= Len(b) THEN Len(a) ELSE Len(b)
        IN /\ max_len > 0 => SameScore(score, <<max_len - ClassicLevenshtein(a, b), max_len>>)
           /\ ScoreGE(score, <<0, 1>>)
           /\ ScoreGE(<<1, 1>>, score)
           /\ a = b => SameScore(score, <<1, 1>>)
           /\ SameScore(score, similarity_score(b, a))
           /\ (a = <<>> /\ b = <<>>) => SameScore(score, <<1, 1>>)
           /\ (a = <<>> /\ b = ABC) => SameScore(score, <<0, 1>>)

\* C16 witness: similarity_score("", "ABC") has returned 0.0
C16_Witness ==
    /\ Returned("similarity_score")
    /\ wm_call.args = <<<<>>, ABC>>
    /\ SameScore(wm_return[1], <<0, 1>>)


\* C17: levenshtein_distance returns the textbook unit-cost edit distance for
\* every pair of words, whichever argument is the longer and also when one or
\* both are empty; levenshtein_distance("KITTEN", "SITTING") is 3.
C17_LevenshteinIsEditDistance ==
    Returned("levenshtein_distance") =>
        /\ wm_return[1] = ClassicLevenshtein(wm_call.args[1], wm_call.args[2])
        /\ wm_return[1] = ClassicLevenshtein(wm_call.args[2], wm_call.args[1])
        /\ wm_call.args = <<KITTEN, SITTING>> => wm_return[1] = 3

\* C17 witness: levenshtein_distance("KITTEN", "SITTING") has returned 3, the
\* shorter word being the first argument
C17_Witness ==
    /\ Returned("levenshtein_distance")
    /\ wm_call.args = <<KITTEN, SITTING>>
    /\ wm_return = <<3>>


\* C18: compare_word with an empty candidate list returns the source word
\* with score 0.0; the comparison ignores case, so a single candidate that
\* differs from the source word only in case is returned in its own spelling
\* with score 1.0, as compare_word("abc", ["ABC"]) returns ("ABC", 1.0).
C18_EmptyListAndCase ==
    Returned("compare_word") =>
        LET src_w == wm_call.args[1]
            sol_words == wm_call.args[2]
            word == wm_return[1][1]
            score == wm_return[1][2]
        IN /\ sol_words = <<>> => word = src_w /\ SameScore(score, <<0, 1>>)
           /\ (Len(sol_words) = 1 /\ Upper(sol_words[1]) = Upper(src_w)) =>
                  word = sol_words[1] /\ SameScore(score, <<1, 1>>)
           /\ sol_words # <<>> =>
                  SameScore(score, similarity_score(Upper(src_w), Upper(word)))
           /\ wm_call.args = <<abc, <<ABC>>>> => word = ABC /\ SameScore(score, <<1, 1>>)

\* C18 witness: compare_word("abc", ["ABC"]) has returned ("ABC", 1.0)
C18_Witness ==
    /\ Returned("compare_word")
    /\ wm_call.args = <<abc, <<ABC>>>>
    /\ wm_return[1][1] = ABC
    /\ SameScore(wm_return[1][2], <<1, 1>>)


\* the score compare_word gives the k-th candidate
CandidateScore(k) == similarity_score(Upper(wm_call.args[1]), Upper(wm_call.args[2][k]))

\* the first candidate, in input order, that no candidate outscores
FirstBest ==
    CHOOSE k \in 1..Len(wm_call.args[2]) :
        /\ \A j \in 1..Len(wm_call.args[2]) : ScoreGE(CandidateScore(k), CandidateScore(j))
        /\ \A j \in 1..(k - 1) : ScoreLT(CandidateScore(j), CandidateScore(k))

\* C19: compare_word with a non-empty candidate list returns a candidate of
\* maximum score together with that score, and among candidates of equal
\* maximum score the first in input order.
C19_FirstOfTheBest ==
    (Returned("compare_word") /\ wm_call.args[2] # <<>>) =>
        /\ wm_return[1][1] = wm_call.args[2][FirstBest]
        /\ SameScore(wm_return[1][2], CandidateScore(FirstBest))

\* C19 witness: two different candidates tie for the maximum score, and the
\* call has returned the first of them
C19_Witness ==
    /\ Returned("compare_word")
    /\ Len(wm_call.args[2]) = 2
    /\ wm_call.args[2][1] # wm_call.args[2][2]
    /\ SameScore(CandidateScore(1), CandidateScore(2))
    /\ ScoreLT(CandidateScore(1), <<1, 1>>)
    /\ ScoreGT(CandidateScore(1), <<0, 1>>)
    /\ wm_return[1][1] = wm_call.args[2][1]


-----------------------------------------------------------------------------
(* ErrorLog (specification Spec).                                          *)

\* C20: the log is append-only: every step leaves the records already logged
\* in place and unchanged, so the log before the step is a prefix of the log
\* after it, and each add_error adds exactly one record at the end, also when
\* an equal record is already logged.
C20_LogAppendOnly ==
    [][/\ Len(error_log') >= Len(error_log)
       /\ SubSeq(error_log', 1, Len(error_log)) = error_log
       /\ \A k \in (Len(error_log) + 1)..Len(error_log') :
             add_error(SubSeq(error_log', 1, k - 1), error_log'[k].type, error_log'[k].id,
                       error_log'[k].name, error_log'[k].error, error_log'[k].message)
                 = SubSeq(error_log', 1, k)]_vars

\* C20 witness: add_error has run with a record equal to one already logged,
\* and the log holds both
C20_Witness ==
    \E i \in 1..Len(error_log) : \E j \in (i + 1)..Len(error_log) :
        error_log[i] = error_log[j]


-----------------------------------------------------------------------------
(* ErrorLog.find_error on its own (specification ErrorLogSpec).            *)

\* the records of the log whose subject id is object_id
RecordsOf(object_id) == {k \in 1..Len(error_log) : error_log[k].id = object_id}

\* C21: find_error(X) reports found exactly when the log holds a record whose
\* subject id is X, then returns the earliest such record, and otherwise
\* returns (None, false); the lookup leaves the log as it was.
C21_FindErrorEarliest ==
    [][/\ error_log' = error_log
       /\ find_return'[1][2] <=> RecordsOf(find_call[1]) # {}
       /\ find_return'[1][2] =>
             \E k \in RecordsOf(find_call[1]) :
                 /\ find_return'[1][1] = error_log[k]
                 /\ \A j \in RecordsOf(find_call[1]) : k <= j
       /\ ~find_return'[1][2] => find_return'[1][1] = None]_vars

\* C21 witness: the log holds two different records of the subject looked up,
\* and find_error has returned the earlier one
C21_Witness ==
    /\ find_return # None
    /\ \E j, k \in RecordsOf(find_call[1]) :
          /\ j < k
          /\ error_log[j] # error_log[k]
          /\ find_return[1] = <<error_log[j], TRUE>>


-----------------------------------------------------------------------------
(* batch_verification_mode (specification BatchSpec).                      *)

\* the loop of batch_verification_mode has run out of files
BatchOver == pc = "batch_loop" /\ file_idx > Len(directory)

\* the categories in which the graph of a file differs from the solution
OwnCategories(file) ==
    CASE file.stem = "relationship" -> {"Relationship"}
      [] file.stem = "link" -> {"Association Link"}
      [] OTHER -> {}

\* every record of log is a diagnostic of the file's own differences
OwnDiagnosticsOnly(file, log) ==
    \A d \in 1..Len(log) : log[d].type \in OwnCategories(file)

\* C22: a fatal failure aborts only its own call of normal_validation_mode:
\* when the batch is over every .cdm file of the directory has been processed
\* exactly once, also the files after one whose parsing, linking or validation
\* failed; each run starts with an empty log of its own, and no log ever holds
\* a diagnostic of another run.
C22_BatchIsolatesFailures ==
    /\ BatchOver =>
          \A i \in 1..Len(directory) :
              Cardinality({r \in 1..Len(runs) : runs[r].file = i})
                  = IF directory[i].ext = ".cdm" THEN 1 ELSE 0
    /\ pc = "validate_entities" => error_log = <<>>
    /\ (pc # "batch_loop" /\ file_idx <= Len(directory)) =>
          OwnDiagnosticsOnly(directory[file_idx], error_log)
    /\ \A r \in 1..Len(runs) : OwnDiagnosticsOnly(directory[runs[r].file], runs[r].log)

\* C22 witness: the batch is over; the validation of the first file logged a
\* diagnostic and then raised, the second file failed to parse or link, and the
\* third file, a copy of the solution, was validated with an empty log
C22_Witness ==
    /\ BatchOver
    /\ \E a, b, c \in 1..Len(runs) :
          /\ a < b /\ b < c
          /\ runs[a].exc = "RuntimeError" /\ runs[a].log # <<>>
          /\ ~runs[b].validated
          /\ runs[c].validated /\ runs[c].exc = "" /\ runs[c].log = <<>>


-----------------------------------------------------------------------------
(* The run of validate() (specification Spec), continued.                  *)

\* C23: validate() leaves both graphs unchanged: on every step the source
\* model and the solution model keep their object sequences and every field
\* value; only the pools, the positions of the loops and the log change.
C23_GraphsUnchanged ==
    [][src_model' = src_model /\ solution_model' = solution_model]_vars

\* C23 witness: the run is over, solution objects were taken out of pools and
\* diagnostics were logged
C23_Witness == pc = "done" /\ matches # <<>> /\ error_log # <<>>


\* validate_entities is about to take the source entity at idx
AtEntity == pc = "entities_loop" /\ idx <= Len(src_model.entities)

\* the pool entity at k scores highest against name among the entities of the pool
BestInPool(name, k) ==
    \A j \in 1..Len(pool) :
        ScoreGE(WordScore(name, pool[k].name), WordScore(name, pool[j].name))

\* no solution entity is the third component of two 'Entity' matches
NoEntityClaimedTwice(claims) ==
    \A i, j \in 1..Len(claims) :
        (i < j /\ claims[i][1] = "Entity" /\ claims[j][1] = "Entity")
            => claims[i][3] # claims[j][3]

\* C24: a step of validate_entities matches the source entity it takes iff the
\* highest name score over the entities still in the pool is above 0.85; the
\* entity claimed carries a best-scoring name and leaves the pool in that
\* step; no solution entity is claimed twice and, while the entity pass runs,
\* the pool only loses entities.
C24_EntityMatchesBestInPool ==
    [][/\ AtEntity =>
             IF \E k \in 1..Len(pool) : Similar(src_model.entities[idx].name, pool[k].name)
             THEN \E k \in 1..Len(pool) :
                     /\ Similar(src_model.entities[idx].name, pool[k].name)
                     /\ BestInPool(src_model.entities[idx].name, k)
                     /\ pool' = RemoveAt(pool, k)
                     /\ matches' = Append(matches, <<"Entity", src_model.entities[idx].id,
                                                    pool[k].id>>)
             ELSE pool' = pool /\ matches' = matches
       /\ (InEntityPass /\ pc # "validate_entities") =>
             /\ Len(pool') <= Len(pool)
             /\ \A k \in 1..Len(pool') : \E j \in 1..Len(pool) : pool'[k] = pool[j]
       /\ NoEntityClaimedTwice(matches')]_vars

\* C24 witness: two source entities of the same name have each claimed a
\* solution entity, and the entity pass has ended
C24_Witness ==
    /\ pc = "validate_relationships"
    /\ \E i, j \in 1..Len(matches) :
          /\ i < j
          /\ matches[i][1] = "Entity" /\ matches[j][1] = "Entity"
          /\ \E a, b \in 1..Len(src_model.entities) :
                /\ src_model.entities[a].id = matches[i][2]
                /\ src_model.entities[b].id = matches[j][2]
                /\ src_model.entities[a].name = src_model.entities[b].name


\* validate_attributes is about to take the source attribute at sub_idx
AtAttribute ==
    /\ pc = "attributes_loop"
    /\ sub_idx <= Len(get_attributes(src_model, cur_src.id))

\* the number of records of log after the first n whose text is text
NewDiagnostics(log, n, text) ==
    Cardinality({d \in (n + 1)..Len(log) : log[d].message[1] = text})

\* C25: for a matched attribute pair the datatype and the mandatory flag are
\* compared independently: the step logs a datatype mismatch iff the datatypes
\* differ and a mandatory mismatch iff the flags differ, and nothing else, so
\* 0, 1 or 2 diagnostics; the matched solution attribute leaves the pool in
\* every case.
C25_AttributeFieldsIndependent ==
    [][(AtAttribute /\ matches' # matches) =>
          \E k \in 1..Len(sub_pool) :
              /\ matches' = Append(matches,
                                   <<"Attribute",
                                     get_attributes(src_model, cur_src.id)[sub_idx].id,
                                     sub_pool[k].id>>)
              /\ sub_pool' = RemoveAt(sub_pool, k)
              /\ NewDiagnostics(error_log', Len(error_log), "Attribute datatype mismatch")
                    = IF get_attributes(src_model, cur_src.id)[sub_idx].datatype
                            # sub_pool[k].datatype THEN 1 ELSE 0
              /\ NewDiagnostics(error_log', Len(error_log), "Attribute mandatory property mismatch")
                    = IF get_attributes(src_model, cur_src.id)[sub_idx].mandatory
                            # sub_pool[k].mandatory THEN 1 ELSE 0
              /\ Len(error_log') - Len(error_log)
                    = NewDiagnostics(error_log', Len(error_log), "Attribute datatype mismatch")
                      + NewDiagnostics(error_log', Len(error_log),
                                       "Attribute mandatory property mismatch")]_vars

\* C25 witness: a matched attribute pair differed in both fields and both
\* diagnostics are logged for it
C25_Witness ==
    /\ pc = "attributes_loop"
    /\ \E m \in 1..Len(matches) :
          /\ matches[m][1] = "Attribute"
          /\ \E a \in 1..Len(cur_src.attributes) : \E b \in 1..Len(cur_sol.attributes) :
                /\ cur_src.attributes[a].id = matches[m][2]
                /\ cur_sol.attributes[b].id = matches[m][3]
                /\ cur_src.attributes[a].datatype # cur_sol.attributes[b].datatype
                /\ cur_src.attributes[a].mandatory # cur_sol.attributes[b].mandatory
                /\ Logged(error_log, cur_src.id, "Attribute datatype mismatch")
                /\ Logged(error_log, cur_src.id, "Attribute mandatory property mismatch")


\* some child of the source inheritance has no child of the candidate whose
\* name scores above 0.85
ChildFails(src_inheritance, solution_inheritance) ==
    \E c \in 1..Len(src_inheritance.children) :
        \A d \in 1..Len(solution_inheritance.children) :
            ~Similar(src_inheritance.children[c].name, solution_inheritance.children[d].name)

\* C26: a step of validate_inheritances that finds no qualifying inheritance in
\* the pool logs exactly one diagnostic, for the source inheritance it took;
\* when candidates were tried the diagnostic carries the reason of the last
\* one: 'children mismatch' when a child fails, 'parent mismatch' otherwise.
C26_FailureReasonOfLastCandidate ==
    [][(AtInheritance
        /\ \A k \in 1..Len(pool) :
              ~validate_inheritance(src_model.inheritances[idx], pool[k]).flag) =>
          /\ Len(error_log') = Len(error_log) + 1
          /\ error_log'[Len(error_log')].type = "Inheritance"
          /\ error_log'[Len(error_log')].id = src_model.inheritances[idx].id
          /\ Len(pool) > 0 =>
                error_log'[Len(error_log')].message[1]
                    = IF ChildFails(src_model.inheritances[idx], pool[Len(pool)])
                      THEN "Inheritance children mismatch"
                      ELSE "Inheritance parent mismatch"]_vars


\* the first words of the diagnostics that report what is left of a solution pool
UnmatchedTexts ==
    {"Unmatched entity in solution model", "Unmatched attribute in entity",
     "Unmatched identifier in entity", "Unmatched relationship in solution model",
     "Unmatched inheritance in solution model", "Unmatched association in solution model",
     "Unmatched association link in solution model"}

IsUnmatched(record) == record.message[1] \in UnmatchedTexts

\* the pass a diagnostic belongs to (the leftover attributes are logged as "Entity")
PassOf(record) ==
    IF record.message[1] = "Unmatched attribute in entity" THEN "Attribute"
    ELSE record.type

NestedPasses == {"Attribute", "Identifier"}

\* C27: within a pass the diagnostics of the leftover solution objects come
\* last: a step never appends a diagnostic about a source object of a pass
\* whose leftover solution objects are already in the log; for the attribute
\* and the identifier pass this holds per matched entity pair (the leftovers
\* already logged belong to other source entities)
C27_UnmatchedSolutionLast ==
    [][\A k \in (Len(error_log) + 1)..Len(error_log') :
          ~IsUnmatched(error_log'[k]) =>
             \A i \in 1..(k - 1) :
                (IsUnmatched(error_log'[i]) /\ PassOf(error_log'[i]) = PassOf(error_log'[k]))
                   => /\ PassOf(error_log'[k]) \in NestedPasses
                      /\ error_log'[i].id # cur_src.id]_vars

\* a log in which, for pass P, a source diagnostic of one entity pair follows
\* the leftovers of another pair and precedes the leftovers of its own pair
LeftoversOfTwoPairs(P) ==
    \E i, j, k \in 1..Len(error_log) :
        /\ i < j /\ j < k
        /\ IsUnmatched(error_log[i]) /\ ~IsUnmatched(error_log[j])
        /\ IsUnmatched(error_log[k])
        /\ PassOf(error_log[i]) = P /\ PassOf(error_log[j]) = P
        /\ PassOf(error_log[k]) = P
        /\ error_log[i].id # error_log[k].id

\* C27 witness: a finished run with two matched entity pairs in which both the
\* attribute pass and the identifier pass of the second pair logged a source
\* diagnostic after the leftovers of the first pair and before their own
C27_Witness ==
    /\ pc = "done"
    /\ LeftoversOfTwoPairs("Attribute")
    /\ LeftoversOfTwoPairs("Identifier")


\* the top-level pass that logs a diagnostic: validate_entities logs those of
\* the attribute and the identifier pass too
TopPassOf(record) ==
    IF PassOf(record) \in NestedPasses THEN "Entity" ELSE record.type

\* the diagnostics of one top-level pass, in the order of the log
CategoryLog(log, category) ==
    SelectSeq(log, LAMBDA record : TopPassOf(record) = category)

Categories ==
    {"Entity", "Relationship", "Inheritance", "Association", "Association Link"}

\* C28: the top-level passes are independent: a run of validate() with its
\* five calls in any order ends with the same diagnostics per category, in
\* the same order, as the run of the same graphs in the order of the source
C28_PassOrderImmaterial ==
    (reference_log # None /\ pc \in {"done", "raised"}) =>
        \A category \in Categories :
            CategoryLog(error_log, category) = CategoryLog(reference_log[1], category)


\* the identifier pass of the matched pair (cur_src, cur_sol) returns
LeavingIdentifierPass ==
    pc \in {"identifiers_loop", "identifiers_break"} /\ pc' = "entities_loop"

\* the log holds the primary mismatch of identifier k of the source entity cur_src
PrimaryMismatchAt(k) ==
    \E d \in 1..Len(error_log) :
        /\ error_log[d].type = "Identifier"
        /\ error_log[d].id = cur_src.id
        /\ error_log[d].name = <<get_identifiers(src_model, cur_src.id)[k].id>>
        /\ error_log[d].message[1] = "Table identifier primary property mismatch"

\* the loop has examined the source identifier: it claimed a solution
\* identifier or a diagnostic names it
Examined(identifier) ==
    \/ Claimed("Identifier", identifier.id)
    \/ DiagnosticsOf("Identifier", identifier.id) # {}
    \/ \E d \in 1..Len(error_log) :
          error_log[d].type = "Identifier" /\ error_log[d].name = <<identifier.id>>

\* this step of the loop matches the source identifier it takes to a solution
\* identifier whose is_primary differs
MatchedPrimaryDiffers ==
    /\ pc = "identifiers_loop"
    /\ Len(matches') = Len(matches) + 1
    /\ LET src_identifier == get_identifiers(src_model, cur_src.id)[sub_idx]
           claimed == matches'[Len(matches')]
       IN /\ claimed[1] = "Identifier"
          /\ claimed[2] = src_identifier.id
          /\ ById(get_identifiers(solution_model, cur_sol.id), claimed[3]).is_primary
                 # src_identifier.is_primary

\* C29: in the identifier pass of a matched entity pair, a matched identifier
\* pair that differs in is_primary gets the mismatch diagnostic and ends the
\* loop: when the pass returns no later source identifier of the entity has
\* been examined, and every solution identifier still in the pool, and nothing
\* else, is reported as an unmatched identifier
C29_PrimaryMismatchEndsLoop ==
    [][/\ MatchedPrimaryDiffers => \E k \in {sub_idx} : PrimaryMismatchAt(k)'
       /\ LeavingIdentifierPass =>
          /\ \A k \in 1..Len(get_identifiers(src_model, cur_src.id)) :
                PrimaryMismatchAt(k) =>
                   \A j \in (k + 1)..Len(get_identifiers(src_model, cur_src.id)) :
                       ~Examined(get_identifiers(src_model, cur_src.id)[j])'
          /\ Len(error_log') = Len(error_log) + Len(sub_pool)
          /\ \A k \in 1..Len(sub_pool) :
                /\ error_log'[Len(error_log) + k].message[1] = "Unmatched identifier in entity"
                /\ error_log'[Len(error_log) + k].message[3] = sub_pool[k].name
          /\ \A k \in 1..Len(get_identifiers(solution_model, cur_sol.id)) :
                LET identifier == get_identifiers(solution_model, cur_sol.id)[k]
                IN (\E p \in 1..Len(sub_pool) : sub_pool[p].id = identifier.id)
                      <=> ~ClaimedSolution("Identifier", identifier.id)]_vars

\* C29 witness: the identifier pass has returned after a primary mismatch of
\* the first source identifier, with a second source identifier left
\* unexamined and a solution identifier reported as unmatched
C29_Witness ==
    /\ pc = "entities_loop"
    /\ cur_src # None
    /\ Len(get_identifiers(src_model, cur_src.id)) = 2
    /\ PrimaryMismatchAt(1)
    /\ ~Examined(get_identifiers(src_model, cur_src.id)[2])
    /\ error_log[Len(error_log)].message[1] = "Unmatched identifier in entity"


\* the texts of the diagnostics of a lookup by name that finds no object
LookupFailedTexts ==
    {"Matching entity not found in solution model or already matched",
     "Matching attribute not found in solution model or already matched"}

\* the word compare_word returns for name over objects is the name of one of them
ReturnedNameInPool(name, objects) ==
    ScoreGT(compare_word(name, NamesOf(objects))[2], name_match_threshold)
        => FirstNamed(objects, compare_word(name, NamesOf(objects))[1]) # 0

\* C30: the 'Matching entity ... not found in solution model or already
\* matched' and 'Matching attribute ... not found ... or already matched'
\* diagnostics are never logged: whenever the best score over the pool is above
\* 0.85, the name compare_word returns is the name of an object of the pool
C30_LookupByNameSucceeds ==
    /\ \A d \in 1..Len(error_log) : error_log[d].message[1] \notin LookupFailedTexts
    /\ AtEntity => ReturnedNameInPool(src_model.entities[idx].name, pool)
    /\ AtAttribute =>
          ReturnedNameInPool(get_attributes(src_model, cur_src.id)[sub_idx].name, sub_pool)

\* C30 witness: a finished run in which an entity and an attribute each claimed
\* a solution object whose name differs from their own
C30_Witness ==
    /\ pc = "done"
    /\ \E m \in 1..Len(matches) :
          /\ matches[m][1] = "Entity"
          /\ ById(src_model.entities, matches[m][2]).name
                # ById(solution_model.entities, matches[m][3]).name
    /\ \E m \in 1..Len(matches) :
          /\ matches[m][1] = "Attribute"
          /\ \E e \in 1..Len(src_model.entities) :
                \E a \in 1..Len(src_model.entities[e].attributes) :
                   \E b \in 1..Len(solution_model.entities[e].attributes) :
                      /\ src_model.entities[e].attributes[a].id = matches[m][2]
                      /\ solution_model.entities[e].attributes[b].id = matches[m][3]
                      /\ src_model.entities[e].attributes[a].name
                            # solution_model.entities[e].attributes[b].name

=============================================================================
